---- MODULE Spec2Model ----
(***************************************************************************)
(* Verification model of the gmail-analyzer mailbox tooling:               *)
(*   - RateLimiter (utils/rateLimiter): sliding window + minimum spacing   *)
(*   - EmailSyncer.syncEmails and the persistence calls it makes           *)
(*   - GmailAnalyzer.generateReport and analyzeEmailsProgressively         *)
(* Each component has its own specification (SpecRL, SpecSync, ...); the   *)
(* variables of the other components stay at their initial value.          *)
(***************************************************************************)
EXTENDS Integers, Sequences, FiniteSets, TLC

VARIABLES
  \* ---- RateLimiter ----
  clock,        \* Date.now(), in milliseconds
  requests,     \* RateLimiter.requests: number[]
  callers,      \* per caller of waitIfNeeded(): position, captured `now`, timer
  recorded,     \* every timestamp pushed by waitIfNeeded(), in push order
  elapses,      \* number of clock advances taken (bounds the run)
  \* ---- mailbox sync ----
  today,        \* new Date(), in days
  remote,       \* per user: the message IDs in the remote mailbox
  emails,       \* the emails table: rows [gmailId, userEmail, date, content]
  syncStatus,   \* the sync_status table, one row per user
  pc,           \* position of the sync run in EmailSyncer.syncEmails
  runs,         \* number of sync runs started (bounds the run)
  userEmail,    \* EmailSyncer.userEmail of the run
  options,      \* options.timeRange of the run
  syncRange,    \* getSyncDateRange(options): startDate is <<>> (null) or <<day>>
  session,      \* the run's sync_sessions row
  messageIds,   \* the listing returned by getAllMessageIds
  batchStart,   \* the loop index i over messageIds
  batchEmails,  \* the EmailData returned by processBatch
  allProcessedGmailIds,
  totalProcessed,
  deletedResult,\* rows removed by cleanupEmailsInRange ([ran |-> FALSE] before)
  failedBatch,  \* batchNumber of the batch whose catch block ran, 0 if none
  lastRun,      \* the last completed run: user, options, range, mailbox, rows left
  prevRows,     \* rows left by the run before a repeated run, <<>> if not a repeat
  syncResult,   \* what the last finished syncEmails call returned ([success |-> FALSE]: nothing)
  listFailure,  \* the page of the run's listing that failed and the emails table then ([page |-> 0]: none)
  batchLog,     \* the loop indexes i whose processBatch was called and whose createOrUpdateEmails resolved
  \* ---- report aggregation ----
  analyses,     \* the list passed to generateReport
  report,       \* the report it returned ([generated |-> FALSE] before)
  \* ---- progressive analysis ----
  progEmails,   \* the emails passed to analyzeEmailsProgressively
  progPc,       \* position in analyzeEmailsProgressively
  initialResults,
  lowConfidenceEmails,
  enhancedResults,
  finalResults,
  progMode,     \* config.mode of the run: auto, fast, full
  progCalls,    \* the classifier calls made for the batch, in order: [pass, emails]
  \* ---- AI classification call ----
  clsEmails,    \* the emails passed to analyzeBatchEmailsWithClaude / analyzeEmailsWithSnippets
  clsPass,      \* which of the two it is: initial or enhanced
  clsSend,      \* outcome of claudeClient.send and of reading the response body
  clsPc,        \* position in the call
  clsParsed,    \* what parseBatchAnalysisResult returned ([called |-> FALSE] if not called)
  clsResults,   \* what the call returned
  \* ---- hybrid analysis ----
  hybEmails,    \* the rows getEmailsByUser returned: [id, local], local = canClassifyWithoutAI
  hybLowIds,    \* the emails whose initial AI result has confidence low
  hybPc,        \* position in runHybridCleanupAnalysis
  hybPreClassified, \* preClassified
  hybNeedsAI,   \* needsAI
  hybStart,     \* the loop index i over needsAI
  hybEnhancedCalls, \* the email IDs covered by each analyzeEmailsWithSnippets call, in call order
  hybAiAnalyses,\* aiAnalyses
  hybReport,    \* what generateReport returned ([generated |-> FALSE] before)
  \* ---- local classifier ----
  clfEmail,     \* the argument of classifyEmail: [subject, from, senderEmail]
  clfCategory,  \* what classifyEmail returned ("pending" before)
  \* ---- report cleanup ----
  crReports,    \* table Report: [id, userEmail, deletionCandidates, potentialSavings]
  crCandidates, \* table EmailCandidate: [emailId, reportId, size]
  crSenders,    \* table NewsletterSender: [reportId]
  crPc,         \* idle, or how cleanupReportsAfterDeletion ended: done, threw
  crArgs,       \* its arguments: [userEmail, deletedGmailIds]
  crBefore,     \* the three tables when it was called
  crResult,     \* what it returned
  \* ---- delete-emails request ----
  delEmailIds,  \* emailIds of the request body
  delPc,        \* position in POST
  delBatchStart,\* index of the first ID of the next batch
  delResults,   \* results: [successful, failed]
  delLocal,     \* gmailIds of the user's rows in table Email
  delReportsCleaned,\* cleanupReportsAfterDeletion has committed
  delCleanedIds,\* the IDs it was called with
  delCleanupError,\* which bookkeeping call threw: none, emails, reports
  delDeleted,   \* results as the remote deletion left them
  delResponse,  \* the response of POST ([status |-> 0] before)
  \* ---- processBatch ----
  pbIds,        \* messageIds passed to processBatch
  pbPc,         \* running, or how processBatch ended: returned, threw
  pbChunkStart, \* the loop index i over pbIds
  pbMsg,        \* per message of pbIds: its promise, the messages.get calls made for it and their outcomes
  pbResults,    \* results: the IDs whose EmailData was pushed
  \* ---- token aggregation ----
  aggPc,        \* batches: the AI loop is running; done: it has ended
  aggBatches,   \* the number of AI batches of the run
  aggProcessed, \* the AI batches processed so far
  requestCount, \* totalTokenUsage.requestCount
  \* ---- local pre-filter ----
  pfEmail,      \* a row of getEmailsByUser: [subject, senderEmail]
  pfQueue,      \* pending, or the list the row was pushed to: preClassified, needsAI
  pfAnalysis,   \* what getLocalAnalysis returned for it ([category |-> "none"] if not called)
  \* ---- analysis-side classifier ----
  anaCategory,  \* what classifyEmailCategory returned for clfEmail ("pending" before)
  \* ---- batch results ----
  brResults,    \* batchResults: per email of the batch, the cleanupRecommendation of its result (absent: the result has none)
  brPc,         \* results: batchResults has been returned; fallback: the catch block is running; done
  brJ,          \* the loop index j of the fallback
  aiAnalyses,   \* aiAnalyses: [emailId, cleanupRecommendation]
  \* ---- move-email requests ----
  mvReqs,       \* per move-email request: its position, its body, the two counts it read, its response status
  mvCleanups,   \* the cleanupReportsAfterDeletion calls made between the requests
  mvOverlap,    \* a request has started while another one was in flight
  \* ---- sync status flag ----
  ssRuns,       \* per syncEmails call of the user: its position
  ssSessions,   \* per call: the status of its SyncSession row (none before it is created)
  ssInProgress, \* SyncStatus.syncInProgress of the user
  ssStuck,      \* SyncStatus.updatedAt is more than 10 minutes old
  ssPolled,     \* inProgress as the last status poll returned it
  \* ---- token totals ----
  totalTokenUsage,\* totalTokenUsage: [inputTokens, outputTokens, totalTokens]
  tokProcessed, \* the AI batches whose usage has been added
  \* ---- jwt callback ----
  jwtNow,       \* Date.now(), in milliseconds
  jwtToken,     \* the JWT: [accessToken, accessTokenExpires, error]
  jwtRealExpiry,\* when the access token in the JWT really expires, in milliseconds
  jwtRefreshes, \* the refreshes that succeeded
  jwtCalls,     \* the jwt callbacks made after sign-in
  jwtLast       \* what the last callback did: none, kept, refreshed, failed

rlVars == <<clock, requests, callers, recorded, elapses>>

syncVars == <<today, remote, emails, syncStatus, pc, runs, userEmail, options,
              syncRange, session, messageIds, batchStart, batchEmails,
              allProcessedGmailIds, totalProcessed, deletedResult, failedBatch,
              lastRun, prevRows, syncResult, listFailure,
              batchLog>>

reportVars == <<analyses, report>>

progVars == <<progEmails, progPc, initialResults, lowConfidenceEmails, enhancedResults,
              finalResults, progMode, progCalls>>

clsVars == <<clsEmails, clsPass, clsSend, clsPc, clsParsed, clsResults>>

hybVars == <<hybEmails, hybLowIds, hybPc, hybPreClassified, hybNeedsAI,
             hybStart, hybEnhancedCalls, hybAiAnalyses, hybReport>>

clfVars == <<clfEmail, clfCategory>>

crVars == <<crReports, crCandidates, crSenders, crPc, crArgs, crBefore,
            crResult>>

delVars == <<delEmailIds, delPc, delBatchStart, delResults, delLocal,
             delReportsCleaned, delCleanedIds, delCleanupError, delDeleted, delResponse>>

pbVars == <<pbIds, pbPc, pbChunkStart, pbMsg, pbResults>>

aggVars == <<aggPc, aggBatches, aggProcessed, requestCount>>

pfVars == <<pfEmail, pfQueue, pfAnalysis>>

anaVars == <<anaCategory>>

brVars == <<brResults, brPc, brJ, aiAnalyses>>

mvVars == <<mvReqs, mvCleanups, mvOverlap>>

ssVars == <<ssRuns, ssSessions, ssInProgress, ssStuck, ssPolled>>

tokVars == <<totalTokenUsage, tokProcessed>>

jwtVars == <<jwtNow, jwtToken, jwtRealExpiry, jwtRefreshes, jwtCalls, jwtLast>>

vars == <<rlVars, syncVars, reportVars, progVars, clsVars, hybVars, clfVars,
          crVars, delVars, pbVars, aggVars, pfVars, anaVars, brVars, mvVars,
          ssVars, tokVars, jwtVars>>

notRL == <<syncVars, reportVars, progVars, clsVars, hybVars, clfVars, crVars,
           delVars, pbVars, aggVars, pfVars, anaVars, brVars, mvVars, ssVars,
           tokVars, jwtVars>>
notSync == <<rlVars, reportVars, progVars, clsVars, hybVars, clfVars, crVars,
             delVars, pbVars, aggVars, pfVars, anaVars, brVars, mvVars,
             ssVars, tokVars, jwtVars>>
notReport == <<rlVars, syncVars, progVars, clsVars, hybVars, clfVars, crVars,
               delVars, pbVars, aggVars, pfVars, anaVars, brVars, mvVars,
               ssVars, tokVars, jwtVars>>
notProg == <<rlVars, syncVars, reportVars, clsVars, hybVars, clfVars, crVars,
             delVars, pbVars, aggVars, pfVars, anaVars, brVars, mvVars,
             ssVars, tokVars, jwtVars>>
notCls == <<rlVars, syncVars, reportVars, progVars, hybVars, clfVars, crVars,
            delVars, pbVars, aggVars, pfVars, anaVars, brVars, mvVars,
            ssVars, tokVars, jwtVars>>
notHyb == <<rlVars, syncVars, reportVars, progVars, clsVars, clfVars, crVars,
            delVars, pbVars, aggVars, pfVars, anaVars, brVars, mvVars,
            ssVars, tokVars, jwtVars>>
notClf == <<rlVars, syncVars, reportVars, progVars, clsVars, hybVars, crVars,
            delVars, pbVars, aggVars, pfVars, anaVars, brVars, mvVars,
            ssVars, tokVars, jwtVars>>
notCR == <<rlVars, syncVars, reportVars, progVars, clsVars, hybVars, clfVars,
           delVars, pbVars, aggVars, pfVars, anaVars, brVars, mvVars, ssVars,
           tokVars, jwtVars>>
notDel == <<rlVars, syncVars, reportVars, progVars, clsVars, hybVars,
            clfVars, crVars, pbVars, aggVars, pfVars, anaVars, brVars,
            mvVars, ssVars, tokVars, jwtVars>>
notPB == <<rlVars, syncVars, reportVars, progVars, clsVars, hybVars, clfVars,
           crVars, delVars, aggVars, pfVars, anaVars, brVars, mvVars, ssVars,
           tokVars, jwtVars>>
notAgg == <<rlVars, syncVars, reportVars, progVars, clsVars, hybVars,
            clfVars, crVars, delVars, pbVars, pfVars, anaVars, brVars,
            mvVars, ssVars, tokVars, jwtVars>>
notProgAgg == <<rlVars, syncVars, reportVars, clsVars, hybVars, clfVars,
                crVars, delVars, pbVars, pfVars, anaVars, brVars, mvVars,
                ssVars, tokVars, jwtVars>>
notPF == <<rlVars, syncVars, reportVars, progVars, clsVars, hybVars, clfVars,
           crVars, delVars, pbVars, aggVars, anaVars, brVars, mvVars, ssVars,
           tokVars, jwtVars>>
notAna == <<rlVars, syncVars, reportVars, progVars, clsVars, hybVars,
            clfVars, crVars, delVars, pbVars, aggVars, pfVars, brVars,
            mvVars, ssVars, tokVars, jwtVars>>
notBR == <<rlVars, syncVars, reportVars, progVars, clsVars, hybVars, clfVars,
           crVars, delVars, pbVars, aggVars, pfVars, anaVars, mvVars, ssVars,
           tokVars, jwtVars>>
notMove == <<rlVars, syncVars, reportVars, progVars, clsVars, hybVars,
             clfVars, crVars, delVars, pbVars, aggVars, pfVars, anaVars,
             brVars, ssVars, tokVars, jwtVars>>
notCRMove == <<rlVars, syncVars, reportVars, progVars, clsVars, hybVars,
               clfVars, delVars, pbVars, aggVars, pfVars, anaVars, brVars,
               ssVars, tokVars, jwtVars>>
notSS == <<rlVars, syncVars, reportVars, progVars, clsVars, hybVars, clfVars,
           crVars, delVars, pbVars, aggVars, pfVars, anaVars, brVars, mvVars,
           tokVars, jwtVars>>
notTok == <<rlVars, syncVars, reportVars, progVars, clsVars, hybVars,
            clfVars, crVars, delVars, pbVars, aggVars, pfVars, anaVars,
            brVars, mvVars, ssVars, jwtVars>>
notJwt == <<rlVars, syncVars, reportVars, progVars, clsVars, hybVars,
            clfVars, crVars, delVars, pbVars, aggVars, pfVars, anaVars,
            brVars, mvVars, ssVars, tokVars>>

(***************************************************************************)
(* RateLimiter                                                             *)
(***************************************************************************)

\* new RateLimiter({maxRequests, windowMs, minDelayMs}); the window and the
\* spacing are those of gmailRateLimiter, maxRequests is scaled down from
\* 7500 so that the limit can be reached.
maxRequests == 2
windowMs == 60000
minDelayMs == 8
bufferMs == 100

NumCallers == 3
MaxCalls == 4
MaxElapses == 3

Callers == 1..NumCallers

SeqMin(s) == CHOOSE x \in {s[i] : i \in 1..Len(s)} : \A j \in 1..Len(s) : x <= s[j]
SeqMax(s) == CHOOSE x \in {s[i] : i \in 1..Len(s)} : \A j \in 1..Len(s) : x >= s[j]

\* this.requests.filter(time => now - time < this.config.windowMs)
InWindow(now, time) == now - time < windowMs
FilterWindow(reqs, now) == SelectSeq(reqs, LAMBDA time : InWindow(now, time))

\* if (this.requests.length >= this.config.maxRequests)
AtLimit(reqs) == Len(reqs) >= maxRequests

\* waitTime = windowMs - (now - oldestRequest) + 100
WaitTime(reqs, now) == windowMs - (now - SeqMin(reqs)) + bufferMs

\* delayNeeded = minDelayMs - (now - lastRequest); 0 when no delay is needed
DelayNeeded(reqs, now) ==
  IF Len(reqs) > 0 /\ now - SeqMax(reqs) < minDelayMs
  THEN minDelayMs - (now - SeqMax(reqs))
  ELSE 0

Idle == [pc |-> "idle", now |-> 0, wake |-> 0]

\* this.requests.push(Date.now()), then the promise resolves
Record(c) ==
  /\ requests' = Append(requests, clock)
  /\ recorded' = Append(recorded, clock)
  /\ callers' = [callers EXCEPT ![c] = Idle]

\* lines 32-44, run with the `now` captured on entry and this.requests as it
\* is when the check runs: sleep(delayNeeded) or record at once.
MinDelayStep(c, reqs, now) ==
  IF DelayNeeded(reqs, now) > 0
  THEN /\ requests' = reqs
       /\ callers' = [callers EXCEPT ![c] =
                        [pc |-> "sleepDelay", now |-> now,
                         wake |-> clock + DelayNeeded(reqs, now)]]
       /\ UNCHANGED recorded
  ELSE /\ requests' = Append(reqs, clock)
       /\ recorded' = Append(recorded, clock)
       /\ callers' = [callers EXCEPT ![c] = Idle]

\* waitIfNeeded() from entry to its first suspension (or to its end)
Call(c) ==
  /\ callers[c].pc = "idle"
  /\ Len(recorded) + Cardinality({d \in Callers : callers[d].pc # "idle"}) < MaxCalls
  /\ LET reqs == FilterWindow(requests, clock) IN
       IF AtLimit(reqs) /\ WaitTime(reqs, clock) > 0
       THEN /\ requests' = reqs
            /\ callers' = [callers EXCEPT ![c] =
                             [pc |-> "sleepWindow", now |-> clock,
                              wake |-> clock + WaitTime(reqs, clock)]]
            /\ UNCHANGED recorded
       ELSE MinDelayStep(c, reqs, clock)
  /\ UNCHANGED <<clock, elapses>>
  /\ UNCHANGED notRL

\* the window sleep's timer fires: continue at line 32
WakeWindow(c) ==
  /\ callers[c].pc = "sleepWindow"
  /\ clock >= callers[c].wake
  /\ MinDelayStep(c, requests, callers[c].now)
  /\ UNCHANGED <<clock, elapses>>
  /\ UNCHANGED notRL

\* the min-delay sleep's timer fires: continue at line 43
WakeDelay(c) ==
  /\ callers[c].pc = "sleepDelay"
  /\ clock >= callers[c].wake
  /\ Record(c)
  /\ UNCHANGED <<clock, elapses>>
  /\ UNCHANGED notRL

Sleeping == {c \in Callers : callers[c].pc # "idle"}

\* time passes up to the next timer that is due
AdvanceToTimer ==
  /\ Sleeping # {}
  /\ \A c \in Sleeping : callers[c].wake > clock
  /\ \E c \in Sleeping :
       /\ \A d \in Sleeping : callers[c].wake <= callers[d].wake
       /\ clock' = callers[c].wake
  /\ UNCHANGED <<requests, callers, recorded, elapses>>
  /\ UNCHANGED notRL

\* time passes between calls
Elapse(d) ==
  /\ elapses < MaxElapses
  /\ \A c \in Sleeping : callers[c].wake > clock + d
  /\ clock' = clock + d
  /\ elapses' = elapses + 1
  /\ UNCHANGED <<requests, callers, recorded>>
  /\ UNCHANGED notRL

RLInit ==
  /\ clock = 0
  /\ requests = <<>>
  /\ recorded = <<>>
  /\ callers = [c \in Callers |-> Idle]
  /\ elapses = 0

RLNext ==
  \/ \E c \in Callers : Call(c)
  \/ \E c \in Callers : WakeWindow(c)
  \/ \E c \in Callers : WakeDelay(c)
  \/ AdvanceToTimer
  \/ \E d \in {1, minDelayMs, windowMs} : Elapse(d)

(***************************************************************************)
(* Mailbox sync: EmailSyncer.syncEmails and the persistence layer          *)
(***************************************************************************)

MaxId == 2
MaxRuns == 2

\* messages per batch (100 in the source, scaled so that a listing of MaxId
\* messages spans several batches)
batchSize == 1

Users == {"A", "B"}
\* the user whose sync requests are followed; the other user's rows are in
\* the table from that user's earlier syncs
SyncUsers == {"A"}
Ids == 1..MaxId
TimeRanges == {"all", "7d", "30d"}

\* the Date header of a message, in days
DateOf(id) == CASE id % 3 = 1 -> 33
                [] id % 3 = 2 -> 10
                [] OTHER -> 5

\* startDate.setDate(now.getDate() - 7) and its siblings
RangeDays(timeRange) == CASE timeRange = "7d" -> 7
                          [] timeRange = "30d" -> 30
                          [] OTHER -> 0

\* getSyncDateRange(options)
getSyncDateRange(timeRange, now) ==
  [startDate |-> IF timeRange # "all" THEN <<now - RangeDays(timeRange)>> ELSE <<>>,
   endDate |-> now]

\* buildSearchQuery + the remote listing: newer_than:<timeRange> on the
\* user's mailbox, in ascending ID order
Matches(timeRange, now, id) ==
  timeRange = "all" \/ DateOf(id) >= now - RangeDays(timeRange)

\* the elements of a set of IDs in ascending order (split at the median, so
\* that listings of hundreds of IDs stay within a shallow recursion)
RECURSIVE SetToSeq(_)
SetToSeq(S) ==
  IF S = {} THEN <<>>
  ELSE LET m == CHOOSE x \in S : Cardinality({y \in S : y < x}) = Cardinality(S) \div 2
       IN SetToSeq({y \in S : y < m}) \o <<m>> \o SetToSeq({y \in S : y > m})

Listing(user, timeRange, now) ==
  SetToSeq({id \in remote[user] : Matches(timeRange, now, id)})

Range(seq) == {seq[k] : k \in 1..Len(seq)}

Min2(a, b) == IF a < b THEN a ELSE b

\* messageIds.slice(batchStart, batchStart + batchSize)
Slice(seq, from, size) ==
  SubSeq(seq, from + 1, IF from + size < Len(seq) THEN from + size ELSE Len(seq))

\* a batch count that rounds down
FloorDiv(n, d) == n \div d

\* Math.ceil(messageIds.length / batchSize)
CeilDiv(n, d) == (n + d - 1) \div d

\* extractEmailData(message.data) of a message fetched from `user`'s mailbox
extractEmailData(user, id) == [gmailId |-> id, date |-> DateOf(id), content |-> user]

\* tx.email.upsert({where: {gmailId}, update: {...email}, create: {userEmail, ...email}})
Upsert(rows, user, email) ==
  IF \E r \in rows : r.gmailId = email.gmailId
  THEN {IF r.gmailId = email.gmailId
        THEN [r EXCEPT !.date = email.date, !.content = email.content]
        ELSE r : r \in rows}
  ELSE rows \cup {[gmailId |-> email.gmailId, userEmail |-> user,
                   date |-> email.date, content |-> email.content]}

\* createOrUpdateEmails(userEmail, emails): one transaction that upserts the
\* emails of the batch one after the other. The gmailIds of a batch are
\* distinct, so each upsert touches only the row of its own gmailId: the
\* result is the untouched rows plus, per email, the row its upsert leaves.
createOrUpdateEmails(rows, user, batch) ==
  {r \in rows : \A e \in batch : r.gmailId # e.gmailId}
  \cup UNION {{q \in Upsert(rows, user, e) : q.gmailId = e.gmailId} : e \in batch}

\* the rows cleanupEmailsInRange's deleteMany matches
\* a cleanup whose where-clause has no date condition
CleanupWhereNoDate(rows, user, validGmailIds, range) ==
  {r \in rows : r.userEmail = user /\ r.gmailId \notin validGmailIds}

CleanupWhere(rows, user, validGmailIds, range) ==
  IF range.startDate = <<>>
  THEN {r \in rows : r.userEmail = user /\ r.gmailId \notin validGmailIds}
  ELSE {r \in rows : /\ r.userEmail = user
                     /\ r.date >= range.startDate[1]
                     /\ r.date <= range.endDate
                     /\ r.gmailId \notin validGmailIds}

NoSession ==
  [status |-> "none", totalEmails |-> 0, totalBatches |-> 0, currentBatch |-> 0,
   emailsProcessed |-> 0, errorMessage |-> FALSE]

NoStatus == [syncInProgress |-> FALSE, totalEmails |-> 0, errorMessage |-> FALSE]

NoRun == [valid |-> FALSE]

\* no return value: the call has not returned, or it threw
NoResult == [success |-> FALSE]

\* no page of the listing has failed
NoListFailure == [page |-> 0, rows |-> {}]

\* no batch has been fetched or persisted
NoBatchLog == [fetched |-> {}, persisted |-> {}]

RowKeys(rows) == {<<r.gmailId, r.userEmail>> : r \in rows}

\* the run's arguments and its result
callVars == <<userEmail, options, syncRange, deletedResult>>

\* the locals of syncEmails
localVars == <<messageIds, batchStart, batchEmails, allProcessedGmailIds,
               totalProcessed, failedBatch>>

runVars == <<callVars, localVars>>

envVars == <<today, remote>>

histVars == <<lastRun, prevRows, syncResult>>

\* what the run's listing and its batches did
listVars == <<listFailure, batchLog>>

\* the rows earlier syncs of the users can have left: at most one per gmailId,
\* each holding what its owner's mailbox gave
StoredRow(user, id) ==
  [gmailId |-> id, userEmail |-> user, date |-> DateOf(id), content |-> user]

SyncInit ==
  /\ today = 40
  /\ remote = [u \in Users |-> Ids]
  /\ \E owner \in [Ids -> Users \cup {"nobody"}] :
       emails = {StoredRow(owner[id], id) : id \in {x \in Ids : owner[x] # "nobody"}}
  /\ syncStatus = [u \in Users |-> NoStatus]
  /\ pc = "idle"
  /\ runs = 0
  /\ userEmail = "A"
  /\ options = "all"
  /\ syncRange = getSyncDateRange("all", 40)
  /\ session = NoSession
  /\ messageIds = <<>>
  /\ batchStart = 0
  /\ batchEmails = {}
  /\ allProcessedGmailIds = {}
  /\ totalProcessed = 0
  /\ deletedResult = [ran |-> FALSE, rows |-> {}]
  /\ failedBatch = 0
  /\ lastRun = NoRun
  /\ prevRows = <<>>
  /\ syncResult = NoResult
  /\ listFailure = NoListFailure
  /\ batchLog = NoBatchLog

\* syncEmails has returned or thrown: its locals are gone
EndOfCall ==
  /\ messageIds' = <<>>
  /\ batchStart' = 0
  /\ batchEmails' = {}
  /\ allProcessedGmailIds' = {}
  /\ totalProcessed' = 0
  /\ failedBatch' = 0
  /\ UNCHANGED callVars

\* the run finished by throwing: a later run is not a repeat of a completed one
Threw ==
  /\ pc' = "threw"
  /\ EndOfCall
  /\ lastRun' = NoRun
  /\ prevRows' = <<>>
  /\ syncResult' = NoResult
  /\ UNCHANGED listVars

\* the run returned its summary
Returned(rows, result) ==
  /\ pc' = "done"
  /\ syncResult' = result
  /\ UNCHANGED listVars
  /\ EndOfCall
  /\ prevRows' = IF /\ lastRun.valid
                    /\ lastRun.userEmail = userEmail
                    /\ lastRun.options = options
                    /\ lastRun.syncRange = syncRange
                    /\ lastRun.remote = remote[userEmail]
                 THEN <<lastRun.rows>> ELSE <<>>
  /\ lastRun' = [valid |-> TRUE, userEmail |-> userEmail, options |-> options,
                 syncRange |-> syncRange, remote |-> remote[userEmail],
                 rows |-> RowKeys(rows)]

\* syncEmails, lines 161-174: getSyncDateRange and createSyncSession
StartSync(user, timeRange) ==
  /\ pc \in {"idle", "done", "threw"}
  /\ runs < MaxRuns
  /\ runs' = runs + 1
  /\ userEmail' = user
  /\ options' = timeRange
  /\ syncRange' = getSyncDateRange(timeRange, today)
  /\ session' = [NoSession EXCEPT !.status = "in_progress"]
  /\ messageIds' = <<>>
  /\ batchStart' = 0
  /\ batchEmails' = {}
  /\ allProcessedGmailIds' = {}
  /\ totalProcessed' = 0
  /\ deletedResult' = [ran |-> FALSE, rows |-> {}]
  /\ failedBatch' = 0
  /\ syncResult' = NoResult
  /\ listFailure' = NoListFailure
  /\ batchLog' = NoBatchLog
  /\ pc' = "markInProgress"
  /\ UNCHANGED <<envVars, emails, syncStatus, lastRun, prevRows>>
  /\ UNCHANGED notSync

\* lines 177-181: updateSyncStatus({syncInProgress: true, errorMessage: null}),
\* outside the try block
MarkInProgress ==
  /\ pc = "markInProgress"
  /\ \/ /\ syncStatus' = [syncStatus EXCEPT ![userEmail] =
                            [@ EXCEPT !.syncInProgress = TRUE, !.errorMessage = FALSE]]
        /\ pc' = "list"
        /\ UNCHANGED <<histVars, listVars, runVars>>
     \/ /\ Threw
        /\ UNCHANGED syncStatus
  /\ UNCHANGED <<envVars, emails, runs, session>>
  /\ UNCHANGED notSync

\* maxResults: 500, scaled down so that a listing has several pages
pageSize == 1

\* the number of messages.list requests of a listing of n IDs: the loop of
\* getAllMessageIds runs at least once
PageCount(n) == IF n = 0 THEN 1 ELSE CeilDiv(n, pageSize)

\* the IDs pushed by the pages before page `page`
Collected(listing, page) == SubSeq(listing, 1, Min2((page - 1) * pageSize, Len(listing)))

\* a listing that falls back to the IDs of the pages read before the failure
ListPartial(collected) ==
  [pc |-> IF Len(collected) = 0 THEN "zeroSession" ELSE "setTotals", messageIds |-> collected]

\* lines 354-359: the rejection of messages.list leaves getAllMessageIds and
\* is caught at line 299; the IDs collected so far are lost with its locals
ListThrows(collected) == [pc |-> "catch", messageIds |-> <<>>]

\* lines 187-192: getAllMessageIds(query), page after page; either every
\* page request succeeds or one of them rejects
ListIds ==
  /\ pc = "list"
  /\ LET listing == Listing(userEmail, options, today) IN
       \/ /\ messageIds' = listing
          /\ pc' = IF Len(messageIds') = 0 THEN "zeroSession" ELSE "setTotals"
          /\ UNCHANGED listVars
       \/ \E page \in 1..PageCount(Len(listing)) :
            /\ pc' = ListThrows(Collected(listing, page)).pc
            /\ messageIds' = ListThrows(Collected(listing, page)).messageIds
            /\ listFailure' = [page |-> page, rows |-> emails]
            /\ UNCHANGED batchLog
  /\ UNCHANGED <<envVars, emails, syncStatus, runs, session, userEmail, options,
                 syncRange, batchStart, batchEmails, allProcessedGmailIds, totalProcessed,
                 deletedResult, failedBatch, histVars>>
  /\ UNCHANGED notSync

\* a zero-ID return that reports the stored rows as total
ZeroResultCounted ==
  [success |-> TRUE, totalEmails |-> Cardinality(emails), newEmails |-> 0, deletedEmails |-> 0]

\* line 205: return { success: true, totalEmails: 0, newEmails: 0, deletedEmails: 0 }
ZeroResult == [success |-> TRUE, totalEmails |-> 0, newEmails |-> 0, deletedEmails |-> 0]

\* lines 194-199: updateSyncSession({status: 'completed', totalEmails: 0})
ZeroSession ==
  /\ pc = "zeroSession"
  /\ \/ /\ session' = [session EXCEPT !.status = "completed", !.totalEmails = 0]
        /\ pc' = "zeroStatus"
     \/ /\ pc' = "catch"
        /\ UNCHANGED session
  /\ UNCHANGED <<envVars, emails, syncStatus, runs, runVars, histVars, listVars>>
  /\ UNCHANGED notSync

\* lines 200-205: updateSyncStatus({syncInProgress: false, totalEmails: 0}); return
ZeroStatus ==
  /\ pc = "zeroStatus"
  /\ \/ /\ syncStatus' = [syncStatus EXCEPT ![userEmail] =
                            [@ EXCEPT !.syncInProgress = FALSE, !.totalEmails = 0]]
        /\ Returned(emails, ZeroResult)
     \/ /\ pc' = "catch"
        /\ UNCHANGED <<syncStatus, histVars, listVars, runVars>>
  /\ UNCHANGED <<envVars, emails, runs, session>>
  /\ UNCHANGED notSync

\* lines 209-216: updateSyncSession({totalEmails, totalBatches})
SetTotalsOf(size) ==
  /\ pc = "setTotals"
  /\ \/ /\ session' = [session EXCEPT !.totalEmails = Len(messageIds),
                                      !.totalBatches = CeilDiv(Len(messageIds), size)]
        /\ pc' = "processBatch"
     \/ /\ pc' = "catch"
        /\ UNCHANGED session
  /\ UNCHANGED <<envVars, emails, syncStatus, runs, runVars, histVars, listVars>>
  /\ UNCHANGED notSync

SetTotals == SetTotalsOf(batchSize)

\* lines 219-226 and processBatch: every message of the batch is fetched; a
\* fetch that fails (after its one retry on 429) yields null and is dropped
ProcessBatch ==
  /\ pc = "processBatch"
  /\ \E fetched \in SUBSET Range(Slice(messageIds, batchStart, batchSize)) :
       batchEmails' = {extractEmailData(userEmail, id) : id \in fetched}
  /\ batchLog' = [batchLog EXCEPT !.fetched = @ \cup {batchStart}]
  /\ pc' = "persist"
  /\ UNCHANGED <<envVars, emails, syncStatus, runs, session, userEmail, options,
                 syncRange, messageIds, batchStart, allProcessedGmailIds, totalProcessed,
                 deletedResult, failedBatch, histVars, listFailure>>
  /\ UNCHANGED notSync

\* lines 230-234: createOrUpdateEmails, then the counters
PersistBatch ==
  /\ pc = "persist"
  /\ \/ /\ emails' = createOrUpdateEmails(emails, userEmail, batchEmails)
        /\ totalProcessed' = totalProcessed + Cardinality(batchEmails)
        /\ allProcessedGmailIds' =
             allProcessedGmailIds \cup {e.gmailId : e \in batchEmails}
        /\ batchLog' = [batchLog EXCEPT !.persisted = @ \cup {batchStart}]
        /\ pc' = "sessionProgress"
     \/ /\ pc' = "batchCatch"
        /\ UNCHANGED <<emails, totalProcessed, allProcessedGmailIds, batchLog>>
  /\ UNCHANGED <<envVars, syncStatus, runs, session, userEmail, options, syncRange,
                 messageIds, batchStart, batchEmails, deletedResult, failedBatch, histVars,
                 listFailure>>
  /\ UNCHANGED notSync

\* lines 239-242: updateSyncSession({currentBatch, emailsProcessed})
SessionProgressOf(size) ==
  /\ pc = "sessionProgress"
  /\ \/ /\ session' = [session EXCEPT !.currentBatch = (batchStart \div size) + 1,
                                      !.emailsProcessed = totalProcessed]
        /\ pc' = "statusProgress"
     \/ /\ pc' = "batchCatch"
        /\ UNCHANGED session
  /\ UNCHANGED <<envVars, emails, syncStatus, runs, runVars, histVars, listVars>>
  /\ UNCHANGED notSync

SessionProgress == SessionProgressOf(batchSize)

\* lines 245-255 and the loop step: updateSyncStatus({syncInProgress: true,
\* totalEmails: totalProcessed}), the pause, batchStart += batchSize
StatusProgressOf(size) ==
  /\ pc = "statusProgress"
  /\ \/ /\ syncStatus' = [syncStatus EXCEPT ![userEmail] =
                            [@ EXCEPT !.syncInProgress = TRUE,
                                      !.totalEmails = totalProcessed]]
        /\ batchStart' = batchStart + size
        /\ pc' = IF batchStart + size < Len(messageIds) THEN "processBatch" ELSE "cleanup"
     \/ /\ pc' = "batchCatch"
        /\ UNCHANGED <<syncStatus, batchStart>>
  /\ UNCHANGED <<envVars, emails, runs, session, userEmail, options, syncRange,
                 messageIds, batchEmails, allProcessedGmailIds, totalProcessed,
                 deletedResult, failedBatch, histVars, listVars>>
  /\ UNCHANGED notSync

StatusProgress == StatusProgressOf(batchSize)

\* a batch catch that swallows the error and goes on to the cleanup
BatchCatchContinue == "cleanup"

\* a batch catch that swallows the error and goes on with the next batch
BatchCatchNextBatch == "statusProgress"

\* line 267, throw batchError: the outer catch block is next
AfterBatchCatch == "catch"

\* lines 257-268: catch (batchError): updateSyncSession({status: 'failed',
\* errorMessage, emailsProcessed}); throw batchError. If the update throws,
\* that error reaches the outer catch instead.
BatchCatchOf(size) ==
  /\ pc = "batchCatch"
  /\ failedBatch' = (batchStart \div size) + 1
  /\ \/ session' = [session EXCEPT !.status = "failed", !.errorMessage = TRUE,
                                   !.emailsProcessed = totalProcessed]
     \/ UNCHANGED session
  /\ pc' = AfterBatchCatch
  /\ UNCHANGED <<envVars, emails, syncStatus, runs, userEmail, options, syncRange,
                 messageIds, batchStart, batchEmails, allProcessedGmailIds, totalProcessed,
                 deletedResult, histVars, listVars>>
  /\ UNCHANGED notSync

BatchCatch == BatchCatchOf(batchSize)

\* lines 271-274: cleanupEmailsInRange(userEmail, allProcessedGmailIds, syncRange)
Cleanup ==
  /\ pc = "cleanup"
  /\ \/ LET gone == CleanupWhere(emails, userEmail, allProcessedGmailIds, syncRange) IN
          /\ emails' = emails \ gone
          /\ deletedResult' = [ran |-> TRUE, rows |-> gone]
          /\ pc' = "completeSession"
     \/ /\ pc' = "catch"
        /\ UNCHANGED <<emails, deletedResult>>
  /\ UNCHANGED <<envVars, syncStatus, runs, session, userEmail, options, syncRange,
                 messageIds, batchStart, batchEmails, allProcessedGmailIds, totalProcessed,
                 failedBatch, histVars, listVars>>
  /\ UNCHANGED notSync

\* lines 277-280: updateSyncSession({status: 'completed'})
CompleteSession ==
  /\ pc = "completeSession"
  /\ \/ /\ session' = [session EXCEPT !.status = "completed"]
        /\ pc' = "completeStatus"
     \/ /\ pc' = "catch"
        /\ UNCHANGED session
  /\ UNCHANGED <<envVars, emails, syncStatus, runs, runVars, histVars, listVars>>
  /\ UNCHANGED notSync

\* lines 283-297: updateSyncStatus({syncInProgress: false, totalEmails,
\* errorMessage: null}); return
CompleteStatus ==
  /\ pc = "completeStatus"
  /\ \/ /\ syncStatus' = [syncStatus EXCEPT ![userEmail] =
                            [syncInProgress |-> FALSE, totalEmails |-> totalProcessed,
                             errorMessage |-> FALSE]]
        /\ Returned(emails, [success |-> TRUE, totalEmails |-> totalProcessed,
                            newEmails |-> totalProcessed,
                            deletedEmails |-> Cardinality(deletedResult.rows)])
     \/ /\ pc' = "catch"
        /\ UNCHANGED <<syncStatus, histVars, listVars, runVars>>
  /\ UNCHANGED <<envVars, emails, runs, session>>
  /\ UNCHANGED notSync

\* lines 299-306: catch (error): updateSyncSession({status: 'failed', errorMessage})
CatchSession ==
  /\ pc = "catch"
  /\ \/ /\ session' = [session EXCEPT !.status = "failed", !.errorMessage = TRUE]
        /\ pc' = "catchStatus"
        /\ UNCHANGED <<histVars, listVars, runVars>>
     \/ /\ Threw
        /\ UNCHANGED session
  /\ UNCHANGED <<envVars, emails, syncStatus, runs>>
  /\ UNCHANGED notSync

\* lines 309-314: updateSyncStatus({syncInProgress: false, errorMessage}); throw error
CatchStatus ==
  /\ pc = "catchStatus"
  /\ \/ syncStatus' = [syncStatus EXCEPT ![userEmail] =
                         [@ EXCEPT !.syncInProgress = FALSE, !.errorMessage = TRUE]]
     \/ UNCHANGED syncStatus
  /\ Threw
  /\ UNCHANGED <<envVars, emails, runs, session>>
  /\ UNCHANGED notSync

\* a message leaves a user's remote mailbox (between runs)
RemoteDelete(user, id) ==
  /\ pc \in {"idle", "done", "threw"}
  /\ id \in remote[user]
  /\ remote' = [remote EXCEPT ![user] = @ \ {id}]
  /\ UNCHANGED <<today, emails, syncStatus, pc, runs, session, runVars, histVars, listVars>>
  /\ UNCHANGED notSync

SyncNext ==
  \/ \E user \in SyncUsers, timeRange \in TimeRanges : StartSync(user, timeRange)
  \/ MarkInProgress
  \/ ListIds
  \/ ZeroSession
  \/ ZeroStatus
  \/ SetTotals
  \/ ProcessBatch
  \/ PersistBatch
  \/ SessionProgress
  \/ StatusProgress
  \/ BatchCatch
  \/ Cleanup
  \/ CompleteSession
  \/ CompleteStatus
  \/ CatchSession
  \/ CatchStatus
  \/ \E user \in SyncUsers, id \in Ids : RemoteDelete(user, id)

(***************************************************************************)
(* syncEmails at its real batch size, on mailboxes of up to MaxMessages    *)
(* messages of the last 7 days and an empty emails table                   *)
(***************************************************************************)

\* const batchSize = 100
syncBatchSize == 100

MaxMessages == 230

\* n message IDs whose date lies within the last 7 days
RecentIds(n) == {3 * k + 1 : k \in 0..(n - 1)}

ScInit ==
  /\ today = 40
  /\ \E n \in 0..MaxMessages : remote = [u \in Users |-> IF u = "A" THEN RecentIds(n) ELSE {}]
  /\ emails = {}
  /\ syncStatus = [u \in Users |-> NoStatus]
  /\ pc = "idle"
  /\ runs = MaxRuns - 1
  /\ userEmail = "A"
  /\ options = "all"
  /\ syncRange = getSyncDateRange("all", 40)
  /\ session = NoSession
  /\ messageIds = <<>>
  /\ batchStart = 0
  /\ batchEmails = {}
  /\ allProcessedGmailIds = {}
  /\ totalProcessed = 0
  /\ deletedResult = [ran |-> FALSE, rows |-> {}]
  /\ failedBatch = 0
  /\ lastRun = NoRun
  /\ prevRows = <<>>
  /\ syncResult = NoResult
  /\ listFailure = NoListFailure
  /\ batchLog = NoBatchLog

\* POST /api/sync-emails with {timeRange: '7d'}
ScStart == StartSync("A", "7d")

ScSetTotals == SetTotalsOf(syncBatchSize)

\* processBatch on a batch of the real size: every detail fetch succeeds, or
\* the fetch of the batch's first message fails and the message is dropped
ScProcessBatch ==
  /\ pc = "processBatch"
  /\ LET slice == Slice(messageIds, batchStart, syncBatchSize) IN
       \E fetched \in {Range(slice), Range(slice) \ {slice[1]}} :
         batchEmails' = {extractEmailData(userEmail, id) : id \in fetched}
  /\ batchLog' = [batchLog EXCEPT !.fetched = @ \cup {batchStart}]
  /\ pc' = "persist"
  /\ UNCHANGED <<envVars, emails, syncStatus, runs, session, userEmail, options,
                 syncRange, messageIds, batchStart, allProcessedGmailIds, totalProcessed,
                 deletedResult, failedBatch, histVars, listFailure>>
  /\ UNCHANGED notSync

ScSessionProgress == SessionProgressOf(syncBatchSize)

ScStatusProgress == StatusProgressOf(syncBatchSize)

ScBatchCatch == BatchCatchOf(syncBatchSize)

ScNext ==
  \/ ScStart
  \/ MarkInProgress
  \/ ListIds
  \/ ZeroSession
  \/ ZeroStatus
  \/ ScSetTotals
  \/ ScProcessBatch
  \/ PersistBatch
  \/ ScSessionProgress
  \/ ScStatusProgress
  \/ ScBatchCatch
  \/ Cleanup
  \/ CompleteSession
  \/ CompleteStatus
  \/ CatchSession
  \/ CatchStatus

(***************************************************************************)
(* Report aggregation: GmailAnalyzer.generateReport                        *)
(***************************************************************************)

MaxAnalyses == 2
MaxSize == 2

\* cleanupRecommendation as the parsed model response carries it: the prompt
\* asks for delete|keep, archive is accepted as well, and "review" stands for
\* any other string of the response, which no code checks
Recommendations == {"delete", "archive", "keep", "review"}
ReportCategories == {"newsletter", "personal"}
Senders == {"a@x.com", "b@y.com"}

\* the analyses about the email at position k of the run
AnalysesOf(k) ==
  [cleanupRecommendation : Recommendations,
   category : ReportCategories,
   originalEmail : [id : {k}, from : Senders, date : 1..2, size : 1..MaxSize]]

RECURSIVE SumSeq(_)
SumSeq(seq) == IF seq = <<>> THEN 0 ELSE Head(seq) + SumSeq(Tail(seq))

\* Array.prototype.sort with (a, b) => key(b) - key(a): descending and stable
SortDesc(seq, keys) ==
  LET before(k) == Cardinality({j \in 1..Len(seq) :
                      keys[j] > keys[k] \/ (keys[j] = keys[k] /\ j < k)})
  IN [p \in 1..Len(seq) |-> seq[CHOOSE k \in 1..Len(seq) : before(k) = p - 1]]

SeqMap(seq, Op(_)) == [k \in 1..Len(seq) |-> Op(seq[k])]

\* the candidate pushed for an analysis
Candidate(a) ==
  [id |-> a.originalEmail.id, from |-> a.originalEmail.from,
   date |-> a.originalEmail.date, size |-> a.originalEmail.size,
   category |-> a.category]

CandidateDate(c) == c.date
CandidateSize(c) == c.size

IsDeletion(a) ==
  a.cleanupRecommendation = "delete" \/ a.cleanupRecommendation = "archive"

IsKeep(a) == ~IsDeletion(a) /\ a.cleanupRecommendation = "keep"

IsNewsletter(a) == a.category = "newsletter" \/ a.category = "promotional"

\* the newsletterSenders map, in insertion order, sorted by count descending
SenderList(list) ==
  LET tracked == SelectSeq(list, IsNewsletter)
      first(k) == \A j \in 1..(k - 1) :
                    tracked[j].originalEmail.from # tracked[k].originalEmail.from
      firsts == SelectSeq([k \in 1..Len(tracked) |-> k], first)
      entry(k) ==
        LET same == {j \in 1..Len(tracked) :
                       tracked[j].originalEmail.from = tracked[k].originalEmail.from}
        IN [senderEmail |-> tracked[k].originalEmail.from,
            count |-> Cardinality(same),
            totalSize |-> SumSeq(SeqMap(
                            SelectSeq(tracked, LAMBDA a :
                              a.originalEmail.from = tracked[k].originalEmail.from),
                            LAMBDA a : a.originalEmail.size)),
            category |-> tracked[k].category]
      entries == [k \in 1..Len(firsts) |-> entry(firsts[k])]
  IN SortDesc(entries, [k \in 1..Len(entries) |-> entries[k].count])

generateReport(list) ==
  LET deletions == SeqMap(SelectSeq(list, IsDeletion), Candidate)
      keeps == SeqMap(SelectSeq(list, IsKeep), Candidate)
      senders == SenderList(list)
  IN [generated |-> TRUE,
      summary |->
        [totalEmails |-> Len(list),
         deletionCandidates |-> Len(deletions),
         keepCandidates |-> Len(keeps),
         newsletterSenders |-> Len(senders),
         totalSize |-> SumSeq(SeqMap(list, LAMBDA a : a.originalEmail.size)),
         potentialSavings |-> SumSeq(SeqMap(deletions, CandidateSize))],
      deletionCandidates |-> SortDesc(deletions, SeqMap(deletions, CandidateDate)),
      keepCandidates |-> SortDesc(keeps, SeqMap(keeps, CandidateDate)),
      newsletterSenders |-> senders]

NoReport == [generated |-> FALSE]

\* runHybridCleanupAnalysis / runTraditionalCleanupAnalysis: return this.generateReport(...)
GenerateReport ==
  /\ ~report.generated
  /\ report' = generateReport(analyses)
  /\ UNCHANGED analyses
  /\ UNCHANGED notReport

ReportNext == GenerateReport

(***************************************************************************)
(* Progressive analysis: GmailAnalyzer.analyzeEmailsProgressively          *)
(***************************************************************************)

MaxBatch == 3

Confidences == {"high", "medium", "low"}

NoTokenUsage == [present |-> FALSE, perEmail |-> FALSE, followUpRequest |-> FALSE]

\* tokenUsagePerEmail as attached to every parsed result
PerEmailTokenUsage == [present |-> TRUE, perEmail |-> TRUE, followUpRequest |-> FALSE]

\* getDefaultAnalysis(), given for the email at position `email` by pass `pass`
getDefaultAnalysis(pass, email) ==
  [pass |-> pass, email |-> email, category |-> "unknown",
   cleanupRecommendation |-> "keep", confidence |-> "low",
   tokenUsage |-> NoTokenUsage]

\* what one entry of a parsed response can be: the model's answer about the
\* email, or the default pushed for a missing entry
ParsedEntries(pass, email) ==
  [pass : {pass}, email : {email}, category : {"personal"},
   cleanupRecommendation : {"delete", "keep"}, confidence : Confidences,
   tokenUsage : {NoTokenUsage}]
  \cup {getDefaultAnalysis(pass, email)}

\* analyzeBatchEmailsWithClaude / analyzeEmailsWithSnippets on `list`: the
\* parsed results with the per-email token usage attached, or, when the
\* invocation throws, the default analysis for every email
PassOutcomes(pass, list) ==
  {[k \in 1..Len(list) |-> [r[k] EXCEPT !.tokenUsage = PerEmailTokenUsage]] :
     r \in {f \in [1..Len(list) -> UNION {ParsedEntries(pass, list[k]) : k \in 1..Len(list)}] :
              \A k \in 1..Len(list) : f[k] \in ParsedEntries(pass, list[k])}}
  \cup {[k \in 1..Len(list) |-> getDefaultAnalysis(pass, list[k])]}

\* lines 247-258: the low-confidence results with their email and index
LowConfidence(list, results) ==
  LET low == SelectSeq([k \in 1..Len(results) |-> k],
                       LAMBDA k : results[k].confidence = "low")
  IN [j \in 1..Len(low) |->
        [email |-> list[low[j]], index |-> low[j], initialResult |-> results[low[j]]]]

\* a splice that writes enhanced result j at position j
RECURSIVE SpliceByPosition(_, _, _, _)
SpliceByPosition(final, low, enhanced, j) ==
  IF j > Len(enhanced) THEN final
  ELSE SpliceByPosition([final EXCEPT ![j] =
                           [enhanced[j] EXCEPT !.tokenUsage =
                              [@ EXCEPT !.present = TRUE, !.followUpRequest = TRUE]]],
                        low, enhanced, j + 1)

\* lines 272-282: each enhanced result replaces the result at its original
\* index, with tokenUsage.followUpRequest set
RECURSIVE Splice(_, _, _, _)
Splice(final, low, enhanced, j) ==
  IF j > Len(enhanced) THEN final
  ELSE Splice([final EXCEPT ![low[j].index] =
                 [enhanced[j] EXCEPT !.tokenUsage =
                    [@ EXCEPT !.present = TRUE, !.followUpRequest = TRUE]]],
              low, enhanced, j + 1)

\* a dispatch that sends every mode through analyzeEmailsProgressively
UsesProgressiveAlways(mode) == TRUE

\* lines 850-852 (and 1064-1066): config.mode === 'auto' selects
\* analyzeEmailsProgressively, any other mode analyzeBatchEmailsWithClaude
UsesProgressive(mode) == mode = "auto"

\* lines 243-263: phase 1 and the partition by confidence
InitialPass ==
  /\ progPc = "initial"
  /\ UsesProgressive(progMode)
  /\ progCalls' = Append(progCalls, [pass |-> "initial", emails |-> progEmails])
  /\ \E results \in PassOutcomes("initial", progEmails) :
       /\ initialResults' = results
       /\ finalResults' = results
       /\ lowConfidenceEmails' = LowConfidence(progEmails, results)
       /\ progPc' = IF Len(lowConfidenceEmails') = 0 THEN "done" ELSE "enhanced"
  /\ UNCHANGED <<progEmails, enhancedResults, progMode>>
  /\ UNCHANGED notProg

\* lines 267-285: phase 2 on the low-confidence emails and the splice
EnhancedPass ==
  /\ progPc = "enhanced"
  /\ \E results \in PassOutcomes("enhanced",
                     SeqMap(lowConfidenceEmails, LAMBDA item : item.email)) :
       /\ enhancedResults' = results
       /\ finalResults' = Splice(finalResults, lowConfidenceEmails, results, 1)
  /\ progCalls' = Append(progCalls,
                         [pass |-> "enhanced",
                          emails |-> SeqMap(lowConfidenceEmails, LAMBDA item : item.email)])
  /\ progPc' = "done"
  /\ UNCHANGED <<progEmails, initialResults, lowConfidenceEmails, progMode>>
  /\ UNCHANGED notProg

\* line 852: outside auto mode the batch is analysed by one call of
\* analyzeBatchEmailsWithClaude
StandardBatch ==
  /\ progPc = "initial"
  /\ ~UsesProgressive(progMode)
  /\ \E results \in PassOutcomes("initial", progEmails) :
       /\ initialResults' = results
       /\ finalResults' = results
  /\ progCalls' = Append(progCalls, [pass |-> "initial", emails |-> progEmails])
  /\ progPc' = "done"
  /\ UNCHANGED <<progEmails, lowConfidenceEmails, enhancedResults, progMode>>
  /\ UNCHANGED notProg

ProgNext ==
  \/ InitialPass
  \/ EnhancedPass

\* the analysis of one AI batch in any mode
BatchNext ==
  \/ InitialPass
  \/ EnhancedPass
  \/ StandardBatch

(***************************************************************************)
(* AI classification call: parseBatchAnalysisResult and its two callers,   *)
(* analyzeBatchEmailsWithClaude and analyzeEmailsWithSnippets              *)
(***************************************************************************)

MaxItems == 2
MaxParseId == 2

\* an element of a JSON array of the response: null, a falsy primitive
\* (0, "", false), a truthy primitive, or an object whose id field is
\* 1..MaxParseId (0: no id field)
ArrayEntries ==
  [kind : {"null", "falsy", "prim"}, id : {0}, confidence : {"absent"}]
  \cup [kind : {"object"}, id : 0..MaxParseId, confidence : {"low", "high"}]

JsonArrays == UNION {[1..n -> ArrayEntries] : n \in 0..MaxItems}

\* a JSON document: an array, or a single value
JsonValues ==
  [json : {"array"}, items : JsonArrays, item : {<<>>}]
  \cup [json : {"single"}, items : {<<>>}, item : {<<v>> : v \in ArrayEntries}]

FenceToken == [tok |-> "fence", value |-> <<>>]
ProseToken == [tok |-> "prose", value |-> <<>>]
TruncatedToken == [tok |-> "truncated", value |-> <<>>]
JsonToken(v) == [tok |-> "json", value |-> <<v>>]

\* the response texts: a JSON document, bare or inside a ```json fence or
\* after a sentence of prose, and a document cut off before its end
ResponseTexts ==
  {<<JsonToken(v)>> : v \in JsonValues}
  \cup {<<FenceToken, JsonToken(v), FenceToken>> : v \in JsonValues}
  \cup {<<ProseToken, JsonToken(v)>> : v \in JsonValues}
  \cup {<<TruncatedToken>>, <<FenceToken, TruncatedToken>>}

\* the value of an expression that may throw
Thrown == [threw |-> TRUE, value |-> <<>>]
Value(v) == [threw |-> FALSE, value |-> <<v>>]

\* response.replace(/```json\n?|\n?```/g, '').trim()
StripFences(text) == SelectSeq(text, LAMBDA t : t.tok # "fence")

\* JSON.parse: a value for exactly one complete document, SyntaxError otherwise
JsonParse(text) ==
  IF Len(text) = 1 /\ text[1].tok = "json" THEN Value(text[1].value[1]) ELSE Thrown

\* parsed.find(r => r.id === wanted): reading r.id of null is a TypeError;
\* <<>> is undefined
RECURSIVE Find(_, _, _)
Find(items, wanted, k) ==
  IF k > Len(items) THEN Value(<<>>)
  ELSE IF items[k].kind = "null" THEN Thrown
  ELSE IF items[k].kind = "object" /\ items[k].id = wanted THEN Value(<<items[k]>>)
  ELSE Find(items, wanted, k + 1)

Truthy(entry) == entry.kind \in {"prim", "object"}

\* the entry getDefaultAnalysis() stands at
DefaultEntry == [kind |-> "default", id |-> 0, confidence |-> "low"]

\* const { id, ...cleanResult } = result
CleanResult(entry) == [entry EXCEPT !.id = 0]

\* lines 512-522: the loop over expectedCount positions
RECURSIVE MapResults(_, _, _)
MapResults(items, expectedCount, i) ==
  IF i >= expectedCount THEN Value(<<>>)
  ELSE LET found == Find(items, i + 1, 1)
       IN IF found.threw THEN Thrown
          ELSE LET result == IF found.value[1] # <<>> THEN found.value[1]
                             ELSE IF i + 1 <= Len(items) THEN <<items[i + 1]>>
                             ELSE <<>>
                   rest == MapResults(items, expectedCount, i + 1)
               IN IF rest.threw THEN Thrown
                  ELSE Value(<<IF result # <<>> /\ Truthy(result[1])
                                THEN CleanResult(result[1])
                                ELSE DefaultEntry>> \o rest.value[1])

\* lines 507-527: the body of the try block
ParseTry(response, expectedCount) ==
  LET parsed == JsonParse(StripFences(response))
  IN IF parsed.threw THEN Thrown
     ELSE IF parsed.value[1].json = "array"
          THEN MapResults(parsed.value[1].items, expectedCount, 0)
          ELSE Value([k \in 1..expectedCount |-> parsed.value[1].item[1]])

\* a parse whose try block has no catch
ParseNoCatch(response, expectedCount) == ParseTry(response, expectedCount)

\* parseBatchAnalysisResult(response, expectedCount)
parseBatchAnalysisResult(response, expectedCount) ==
  LET tried == ParseTry(response, expectedCount)
  IN IF tried.threw THEN Value([k \in 1..expectedCount |-> DefaultEntry]) ELSE tried

\* what `await this.claudeClient.send(command)` and the reading of the
\* response body up to content[0].text give
SendOutcomes ==
  [outcome : {"rejects", "badBody", "noContent"}, text : {<<>>}]
  \cup [outcome : {"text"}, text : ResponseTexts]

InvocationFailed(send) == send.outcome # "text"

NotParsed == [called |-> FALSE]

\* parsedResults.map(result => ({...result, tokenUsage: tokenUsagePerEmail}))
WithTokenUsage(pass, entry, k) ==
  IF entry.kind = "default"
  THEN [getDefaultAnalysis(pass, k) EXCEPT !.tokenUsage = PerEmailTokenUsage]
  ELSE [pass |-> pass, email |-> k,
        category |-> IF entry.kind = "object" THEN "personal" ELSE "absent",
        cleanupRecommendation |-> IF entry.kind = "object" THEN "delete" ELSE "absent",
        confidence |-> entry.confidence,
        tokenUsage |-> PerEmailTokenUsage]

\* a catch block that rethrows
CatchRethrow(pass, list) == Thrown

\* lines 232-236 / 329-332: catch (error): the default analysis for every email
CatchDefaults(pass, list) == Value([k \in 1..Len(list) |-> getDefaultAnalysis(pass, list[k])])

\* analyzeBatchEmailsWithClaude(emails) / analyzeEmailsWithSnippets(emails),
\* from the await of send to the return
AnalyzeBatch ==
  /\ clsPc = "awaiting"
  /\ IF InvocationFailed(clsSend)
     THEN /\ clsParsed' = NotParsed
          /\ clsResults' = CatchDefaults(clsPass, clsEmails)
     ELSE LET parsed == parseBatchAnalysisResult(clsSend.text, Len(clsEmails))
          IN /\ clsParsed' = [called |-> TRUE, result |-> parsed]
             /\ clsResults' =
                  IF parsed.threw THEN CatchDefaults(clsPass, clsEmails)
                  ELSE Value([k \in 1..Len(parsed.value[1]) |->
                                WithTokenUsage(clsPass, parsed.value[1][k], k)])
  /\ clsPc' = "returned"
  /\ UNCHANGED <<clsEmails, clsPass, clsSend>>
  /\ UNCHANGED notCls

ClsNext == AnalyzeBatch

(***************************************************************************)
(* Hybrid analysis: GmailAnalyzer.runHybridCleanupAnalysis in auto mode    *)
(***************************************************************************)

\* const batchSize = 15
aiBatchSize == 15

\* the run: HybLocal emails that canClassifyWithoutAI accepts, HybNeedsAI that
\* it does not, HybLow of those with a low-confidence initial result
HybLocal == 40
HybNeedsAI == 60
HybLow == 12

\* the initial-pass result of analyzeBatchEmailsWithClaude for an email
HybInitialResult(email) ==
  [pass |-> "initial", email |-> email.id, category |-> "personal",
   cleanupRecommendation |-> "keep",
   confidence |-> IF email.id \in hybLowIds THEN "low" ELSE "high",
   tokenUsage |-> PerEmailTokenUsage]

\* lines 809-824: the partition by canClassifyWithoutAI
HybPartition ==
  /\ hybPc = "partition"
  /\ hybPreClassified' = SelectSeq(hybEmails, LAMBDA email : email.local)
  /\ hybNeedsAI' = SelectSeq(hybEmails, LAMBDA email : ~email.local)
  /\ hybPc' = IF Len(hybNeedsAI') > 0 THEN "batch" ELSE "report"
  /\ UNCHANGED <<hybEmails, hybLowIds, hybStart, hybEnhancedCalls, hybAiAnalyses, hybReport>>
  /\ UNCHANGED notHyb

\* lines 840-877, one turn of the loop: analyzeEmailsProgressively on the
\* next aiBatchSize emails (its enhanced call is made when the batch has a
\* low-confidence result, for the low-confidence emails of the batch), then
\* one analysis pushed per result
HybBatch ==
  /\ hybPc = "batch"
  /\ LET batch == Slice(hybNeedsAI, hybStart, aiBatchSize)
         initial == [k \in 1..Len(batch) |-> HybInitialResult(batch[k])]
         low == LowConfidence(batch, initial)
     IN /\ hybEnhancedCalls' =
             IF Len(low) = 0 THEN hybEnhancedCalls
             ELSE Append(hybEnhancedCalls, {low[j].email.id : j \in 1..Len(low)})
        /\ hybAiAnalyses' = hybAiAnalyses \o [k \in 1..Len(batch) |-> batch[k].id]
  /\ hybStart' = hybStart + aiBatchSize
  /\ hybPc' = IF hybStart + aiBatchSize < Len(hybNeedsAI) THEN "batch" ELSE "report"
  /\ UNCHANGED <<hybEmails, hybLowIds, hybPreClassified, hybNeedsAI, hybReport>>
  /\ UNCHANGED notHyb

\* lines 907-914: generateReport([...preClassified, ...aiAnalyses]); its
\* summary.totalEmails is analyses.length
HybReport ==
  /\ hybPc = "report"
  /\ hybReport' = [generated |-> TRUE,
                   totalEmails |-> Len(hybPreClassified) + Len(hybAiAnalyses)]
  /\ hybPc' = "done"
  /\ UNCHANGED <<hybEmails, hybLowIds, hybPreClassified, hybNeedsAI, hybStart,
                 hybEnhancedCalls, hybAiAnalyses>>
  /\ UNCHANGED notHyb

HybNext ==
  \/ HybPartition
  \/ HybBatch
  \/ HybReport

(***************************************************************************)
(* Local classifier: EmailSyncer.classifyEmail                             *)
(***************************************************************************)

\* A string is a sequence of fragments, each a word in lower or upper case.
\* The words are keywords of the classifier and one that holds none of them,
\* the local part of a noreply address, chosen so that no keyword straddles
\* two fragments.
Words == {"newsletter", "marketing", "sale", "linkedin.com", "noreply"}
MaxFragments == 1

Fragments == [word : Words, upper : BOOLEAN]

Strings == UNION {[1..n -> Fragments] : n \in 0..MaxFragments}

\* String.prototype.toLowerCase
toLowerCase(str) == [k \in 1..Len(str) |-> [word |-> str[k].word, upper |-> FALSE]]

\* the keywords that occur inside a lower-case word
KeywordsIn(word) ==
  IF word = "linkedin.com" THEN {"linkedin.com", "linkedin"}
  ELSE IF word = "limited time offer" THEN {"limited time offer", "limited time", "offer"}
  ELSE IF word = "sales" THEN {"sales", "sale"}
  ELSE {word}

\* String.prototype.includes: case-sensitive substring search
includes(str, keyword) ==
  \E k \in 1..Len(str) : ~str[k].upper /\ keyword \in KeywordsIn(str[k].word)

\* the marketing test left out of the newsletter condition
classifyEmailNoMarketing(email) ==
  LET subject == toLowerCase(email.subject)
      from == toLowerCase(email.from)
      senderEmail == toLowerCase(email.senderEmail)
  IN IF \/ includes(subject, "newsletter")
        \/ includes(subject, "unsubscribe")
        \/ includes(from, "newsletter")
        \/ includes(senderEmail, "newsletter")
        \/ includes(subject, "weekly digest")
        \/ includes(subject, "monthly update")
     THEN "newsletter"
     ELSE IF \E kw \in {"sale", "discount", "offer", "deal", "% off", "free shipping",
                        "limited time", "expires today", "last chance"} :
               includes(subject, kw)
     THEN "promotional"
     ELSE IF \/ \E kw \in {"facebook", "twitter", "linkedin", "instagram", "tiktok",
                           "snapchat", "youtube", "pinterest", "reddit"} :
                  includes(from, kw)
             \/ \E kw \in {"facebook.com", "twitter.com", "linkedin.com", "instagram.com",
                           "tiktok.com", "youtube.com"} :
                  includes(senderEmail, kw)
     THEN "social"
     ELSE "unknown"

classifyEmail(email) ==
  LET subject == toLowerCase(email.subject)
      from == toLowerCase(email.from)
      senderEmail == toLowerCase(email.senderEmail)
  IN IF \/ includes(subject, "newsletter")
        \/ includes(subject, "unsubscribe")
        \/ includes(from, "newsletter")
        \/ includes(senderEmail, "newsletter")
        \/ includes(senderEmail, "marketing")
        \/ includes(subject, "weekly digest")
        \/ includes(subject, "monthly update")
     THEN "newsletter"
     ELSE IF \E kw \in {"sale", "discount", "offer", "deal", "% off", "free shipping",
                        "limited time", "expires today", "last chance"} :
               includes(subject, kw)
     THEN "promotional"
     ELSE IF \/ \E kw \in {"facebook", "twitter", "linkedin", "instagram", "tiktok",
                           "snapchat", "youtube", "pinterest", "reddit"} :
                  includes(from, kw)
             \/ \E kw \in {"facebook.com", "twitter.com", "linkedin.com", "instagram.com",
                           "tiktok.com", "youtube.com"} :
                  includes(senderEmail, kw)
     THEN "social"
     ELSE "unknown"

\* the call of classifyEmail
ClassifyEmail ==
  /\ clfCategory = "pending"
  /\ clfCategory' = classifyEmail(clfEmail)
  /\ UNCHANGED clfEmail
  /\ UNCHANGED notClf

ClfNext ==
  \/ ClassifyEmail

(***************************************************************************)
(* Report cleanup: cleanupReportsAfterDeletion                             *)
(***************************************************************************)

MaxReports == 2
MaxEmailId == 2

ReportIds == 1..MaxReports
EmailIds == 1..MaxEmailId

\* an EmailCandidate row; a report holds an email at most once, and the
\* size of an email is the same wherever it is listed
CandidateRows == {[emailId |-> m, reportId |-> r, size |-> 10 * m] : m \in EmailIds, r \in ReportIds}

RECURSIVE SumSizes(_)
SumSizes(rows) ==
  IF rows = {} THEN 0
  ELSE LET c == CHOOSE c \in rows : TRUE IN c.size + SumSizes(rows \ {c})

CandidatesOf(candidates, reportId) == {c \in candidates : c.reportId = reportId}

NoCleanupResult == [deletedCandidates |-> 0, updatedReports |-> 0, deletedReports |-> 0]

\* the database as the transaction sees it
Tables(reports, candidates, senders) ==
  [reports |-> reports, candidates |-> candidates, senders |-> senders]

\* tx.report.delete alone, the sender rows left behind
DeleteReportOnly(db, reportId) ==
  [db EXCEPT !.reports = {r \in db.reports : r.id # reportId}]

\* lines 610-611: tx.newsletterSender.deleteMany then tx.report.delete
DeleteEmptyReport(db, reportId) ==
  [db EXCEPT !.senders = {s \in db.senders : s.reportId # reportId},
             !.reports = {r \in db.reports : r.id # reportId}]

\* lines 616-622: tx.report.update of the summary
UpdateReportSummary(db, reportRow, count, sizeReduction) ==
  [db EXCEPT !.reports = (db.reports \ {reportRow}) \cup
      {[reportRow EXCEPT !.deletionCandidates = reportRow.deletionCandidates - count,
                      !.potentialSavings = reportRow.potentialSavings - sizeReduction]}]

\* lines 590-626: the loop over reportUpdates; `acc` carries the database and
\* the two counters
RECURSIVE UpdateAffectedReports(_, _, _)
UpdateAffectedReports(acc, reportIds, deletedCandidates) ==
  IF reportIds = <<>> THEN acc
  ELSE LET reportId == Head(reportIds)
           removed == CandidatesOf(deletedCandidates, reportId)
           found == {r \in acc.db.reports : r.id = reportId}
       IN IF found = {} THEN UpdateAffectedReports(acc, Tail(reportIds), deletedCandidates)
          ELSE LET reportRow == CHOOSE r \in found : TRUE
                   remainingCandidates == Cardinality(CandidatesOf(acc.db.candidates, reportId))
               IN IF remainingCandidates = 0
                  THEN UpdateAffectedReports(
                         [db |-> DeleteEmptyReport(acc.db, reportId),
                          updatedReports |-> acc.updatedReports,
                          deletedReports |-> acc.deletedReports + 1],
                         Tail(reportIds), deletedCandidates)
                  ELSE UpdateAffectedReports(
                         [db |-> UpdateReportSummary(acc.db, reportRow, Cardinality(removed),
                                                     SumSizes(removed)),
                          updatedReports |-> acc.updatedReports + 1,
                          deletedReports |-> acc.deletedReports],
                         Tail(reportIds), deletedCandidates)

\* lines 545-556: the candidates of the deleted emails in the user's reports
DeletedCandidates(db, user, deletedGmailIds) ==
  {c \in db.candidates :
     /\ c.emailId \in deletedGmailIds
     /\ \E r \in db.reports : r.id = c.reportId /\ r.userEmail = user}

\* the body of the transaction
cleanupReportsAfterDeletion(db, user, deletedGmailIds) ==
  LET deletedCandidates == DeletedCandidates(db, user, deletedGmailIds)
  IN IF Cardinality(deletedCandidates) = 0
     THEN [db |-> db, result |-> NoCleanupResult]
     ELSE LET afterDelete == [db EXCEPT !.candidates = db.candidates \ deletedCandidates]
              reportIds == SetToSeq({c.reportId : c \in deletedCandidates})
              acc == UpdateAffectedReports(
                       [db |-> afterDelete, updatedReports |-> 0, deletedReports |-> 0],
                       reportIds, deletedCandidates)
          IN [db |-> acc.db,
              result |-> [deletedCandidates |-> Cardinality(deletedCandidates),
                          updatedReports |-> acc.updatedReports,
                          deletedReports |-> acc.deletedReports]]

\* the transaction commits
CleanupReports(user, deletedGmailIds) ==
  /\ crPc = "idle"
  /\ LET db == Tables(crReports, crCandidates, crSenders)
         out == cleanupReportsAfterDeletion(db, user, deletedGmailIds)
     IN /\ crReports' = out.db.reports
        /\ crCandidates' = out.db.candidates
        /\ crSenders' = out.db.senders
        /\ crResult' = out.result
        /\ crBefore' = db
  /\ crArgs' = [userEmail |-> user, deletedGmailIds |-> deletedGmailIds]
  /\ crPc' = "done"
  /\ UNCHANGED notCR

\* a statement of the transaction rejects: prisma rolls it back and
\* cleanupReportsAfterDeletion rejects
CleanupReportsRejects(user, deletedGmailIds) ==
  /\ crPc = "idle"
  /\ crBefore' = Tables(crReports, crCandidates, crSenders)
  /\ crArgs' = [userEmail |-> user, deletedGmailIds |-> deletedGmailIds]
  /\ crPc' = "threw"
  /\ UNCHANGED <<crReports, crCandidates, crSenders, crResult>>
  /\ UNCHANGED notCR

CRNext ==
  \/ \E user \in Users, deletedGmailIds \in SUBSET EmailIds :
       CleanupReports(user, deletedGmailIds)
  \/ \E user \in Users, deletedGmailIds \in SUBSET EmailIds :
       CleanupReportsRejects(user, deletedGmailIds)

(***************************************************************************)
(* delete-emails: POST                                                     *)
(***************************************************************************)

\* const batchSize = 50, scaled down so that a request has several batches
delBatchSize == 1
MaxDelIds == 2

NoResponse == [status |-> 0]
NoResults == [successful |-> <<>>, failed |-> <<>>]

AuthError == "Authentication expired. Please sign out and sign back in."
IndividualError == "Individual deletion failed"

AuthSessionError == "Authentication session expired. Please sign out and sign back in to continue."
ReferenceError == "refreshedGmail is not defined"

\* f.error.includes('Authentication') || f.error.includes('sign out and sign back in')
IsAuthError(error) == error \in {AuthError, AuthSessionError}

\* what batchDelete, or setupGmailClient followed by batchDelete in the retry,
\* can do: resolve, reject with an authentication error, reject otherwise
DeleteOutcomes == {"ok", "auth", "other"}

\* currentBatch.forEach(emailId => results.failed.push({emailId, error}))
AllFailed(batch, error) ==
  [successful |-> <<>>,
   failed |-> [k \in 1..Len(batch) |-> [emailId |-> batch[k], error |-> error]]]

\* a fallback that records the trashed IDs only
IndividualFallbackDropsFailures(batch, trashed) ==
  [successful |-> SelectSeq(batch, LAMBDA emailId : emailId \in trashed),
   failed |-> <<>>]

\* lines 212-225: messages.trash for each ID of the batch in turn, `trashed`
\* being the IDs whose call resolves
IndividualFallback(batch, trashed) ==
  [successful |-> SelectSeq(batch, LAMBDA emailId : emailId \in trashed),
   failed |-> LET rest == SelectSeq(batch, LAMBDA emailId : emailId \notin trashed)
              IN [k \in 1..Len(rest) |-> [emailId |-> rest[k], error |-> IndividualError]]]

\* lines 125-227, what one batch adds to results: `first` is the outcome of
\* batchDelete, `retry` that of the refresh and second batchDelete, `trashed`
\* the IDs whose messages.trash would resolve.  In the fallback of the retry
\* (lines 192-205) refreshedGmail is out of scope, every trash call throws a
\* ReferenceError inside its own try block
BatchResult(batch, first, hasRefreshToken, retry, trashed) ==
  IF first = "ok" THEN [successful |-> batch, failed |-> <<>>]
  ELSE IF first = "other" THEN IndividualFallback(batch, trashed)
  ELSE IF ~hasRefreshToken THEN AllFailed(batch, AuthError)
  ELSE IF retry = "ok" THEN [successful |-> batch, failed |-> <<>>]
  ELSE IF retry = "auth" THEN AllFailed(batch, AuthSessionError)
  ELSE AllFailed(batch, ReferenceError)

\* the outcomes of one batch
BatchOutcomes(batch) ==
  {BatchResult(batch, first, hasRefreshToken, retry, trashed) :
     first \in DeleteOutcomes, hasRefreshToken \in BOOLEAN,
     retry \in DeleteOutcomes, trashed \in SUBSET Range(batch)}

\* lines 255-272
SuccessResponse(results) ==
  LET authErrors == SelectSeq(results.failed, LAMBDA f : IsAuthError(f.error))
  IN [status |-> 200, success |-> TRUE,
      results |-> [successful |-> Len(results.successful),
                   failed |-> Len(results.failed),
                   details |-> results],
      authenticationRequired |-> Len(authErrors) > 0]

\* lines 274-280
ErrorResponse == [status |-> 500, error |-> "Failed to delete emails"]

\* the bookkeeping error thrown on to the handler's own catch block
CleanupRethrow(results) == [pc |-> "done", response |-> ErrorResponse]

\* lines 247-251: the error is logged and the handler goes on
CleanupCatch(results) == [pc |-> "respond", response |-> NoResponse]

\* lines 84-101: the session is valid, the body is read, the Gmail client is set up
DelSetup ==
  /\ delPc = "start"
  /\ IF Len(delEmailIds) = 0
     THEN /\ delPc' = "done"
          /\ delResponse' = [status |-> 400, error |-> "No email IDs provided"]
     ELSE /\ delPc' = "batch"
          /\ delResponse' = delResponse
  /\ UNCHANGED <<delEmailIds, delBatchStart, delResults, delLocal, delReportsCleaned, delCleanedIds,
                 delCleanupError, delDeleted>>
  /\ UNCHANGED notDel

\* line 101 throws (the access token cannot be refreshed): lines 274-280
DelSetupFails ==
  /\ delPc = "start"
  /\ Len(delEmailIds) > 0
  /\ delPc' = "done"
  /\ delResponse' = ErrorResponse
  /\ UNCHANGED <<delEmailIds, delBatchStart, delResults, delLocal, delReportsCleaned, delCleanedIds,
                 delCleanupError, delDeleted>>
  /\ UNCHANGED notDel

\* lines 121-228, one batch
DelBatch ==
  /\ delPc = "batch"
  /\ \E outcome \in BatchOutcomes(Slice(delEmailIds, delBatchStart, delBatchSize)) :
       delResults' = [successful |-> delResults.successful \o outcome.successful,
                      failed |-> delResults.failed \o outcome.failed]
  /\ delBatchStart' = delBatchStart + delBatchSize
  /\ IF delBatchStart + delBatchSize < Len(delEmailIds)
     THEN /\ delPc' = "batch"
          /\ delDeleted' = delDeleted
     ELSE /\ delPc' = IF Len(delResults'.successful) > 0 THEN "emailCleanup" ELSE "respond"
          /\ delDeleted' = delResults'
  /\ UNCHANGED <<delEmailIds, delLocal, delReportsCleaned, delCleanedIds, delCleanupError, delResponse>>
  /\ UNCHANGED notDel

\* line 240: deleteEmailsByGmailIds
DelEmailCleanup ==
  /\ delPc = "emailCleanup"
  /\ delLocal' = delLocal \ Range(delResults.successful)
  /\ delPc' = "reportCleanup"
  /\ UNCHANGED <<delEmailIds, delBatchStart, delResults, delReportsCleaned, delCleanedIds,
                 delCleanupError, delDeleted, delResponse>>
  /\ UNCHANGED notDel

\* line 240 throws
DelEmailCleanupFails ==
  /\ delPc = "emailCleanup"
  /\ delCleanupError' = "emails"
  /\ delPc' = CleanupCatch(delResults).pc
  /\ delResponse' = CleanupCatch(delResults).response
  /\ UNCHANGED <<delEmailIds, delBatchStart, delResults, delLocal, delReportsCleaned, delCleanedIds,
                 delDeleted>>
  /\ UNCHANGED notDel

\* line 244: cleanupReportsAfterDeletion
DelReportCleanup ==
  /\ delPc = "reportCleanup"
  /\ delReportsCleaned' = TRUE
  /\ delCleanedIds' = Range(delResults.successful)
  /\ delPc' = "respond"
  /\ UNCHANGED <<delEmailIds, delBatchStart, delResults, delLocal, delCleanupError,
                 delDeleted, delResponse>>
  /\ UNCHANGED notDel

\* line 244 throws
DelReportCleanupFails ==
  /\ delPc = "reportCleanup"
  /\ delCleanupError' = "reports"
  /\ delPc' = CleanupCatch(delResults).pc
  /\ delResponse' = CleanupCatch(delResults).response
  /\ UNCHANGED <<delEmailIds, delBatchStart, delResults, delLocal, delReportsCleaned, delCleanedIds,
                 delDeleted>>
  /\ UNCHANGED notDel

\* lines 255-272
DelRespond ==
  /\ delPc = "respond"
  /\ delResponse' = SuccessResponse(delResults)
  /\ delPc' = "done"
  /\ UNCHANGED <<delEmailIds, delBatchStart, delResults, delLocal, delReportsCleaned, delCleanedIds,
                 delCleanupError, delDeleted>>
  /\ UNCHANGED notDel

DelNext ==
  \/ DelSetup
  \/ DelSetupFails
  \/ DelBatch
  \/ DelEmailCleanup
  \/ DelEmailCleanupFails
  \/ DelReportCleanup
  \/ DelReportCleanupFails
  \/ DelRespond

(***************************************************************************)
(* Detail fetch: EmailSyncer.processBatch                                  *)
(***************************************************************************)

\* const concurrency = 10, scaled down so that a batch has several chunks
concurrency == 2
MaxFetchIds == 3

\* what a messages.get call can do: resolve, reject with code 429, reject
\* with another error
GetOutcomes == {"ok", "429", "other"}

\* the promise of a message before its first call
Unfetched == [state |-> "pending", value |-> "none", calls |-> 0, first |-> "none", retry |-> "none"]

\* error && typeof error === 'object' && 'code' in error && error.code === 429
IsRateLimit(error) == error = "429"

\* the rejection of messages.get let out of the map callback
GiveUpRejects(msg) == [msg EXCEPT !.state = "rejected"]

\* lines 418 and 421: return null
GiveUp(msg) == [msg EXCEPT !.state = "fulfilled", !.value = "null"]

\* lines 397 and 415: return this.extractEmailData(message.data)
Extracted(msg) == [msg EXCEPT !.state = "fulfilled", !.value = "data"]

Chunk == Range(Slice(pbIds, pbChunkStart, concurrency))

\* lines 386-404: the first messages.get of a message of the chunk; on 429
\* the callback sleeps 30 s
PbGet(id) ==
  /\ pbPc = "running"
  /\ id \in Chunk
  /\ pbMsg[id].state = "pending"
  /\ \E outcome \in GetOutcomes :
       LET called == [pbMsg[id] EXCEPT !.calls = @ + 1, !.first = outcome] IN
         pbMsg' = [pbMsg EXCEPT ![id] =
                     IF outcome = "ok" THEN Extracted(called)
                     ELSE IF IsRateLimit(outcome) THEN [called EXCEPT !.state = "sleeping"]
                     ELSE GiveUp(called)]
  /\ UNCHANGED <<pbIds, pbPc, pbChunkStart, pbResults>>
  /\ UNCHANGED notPB

\* lines 406-419: after the sleep, the second messages.get
PbRetry(id) ==
  /\ pbPc = "running"
  /\ id \in Chunk
  /\ pbMsg[id].state = "sleeping"
  /\ \E outcome \in GetOutcomes :
       LET called == [pbMsg[id] EXCEPT !.calls = @ + 1, !.retry = outcome] IN
         pbMsg' = [pbMsg EXCEPT ![id] =
                     IF outcome = "ok" THEN Extracted(called) ELSE GiveUp(called)]
  /\ UNCHANGED <<pbIds, pbPc, pbChunkStart, pbResults>>
  /\ UNCHANGED notPB

\* lines 425-437: Promise.all settles, the non-null results are pushed in
\* the order of the chunk, the loop goes on
PbChunkDone ==
  /\ pbPc = "running"
  /\ \/ \E id \in Chunk : pbMsg[id].state = "rejected"
     \/ \A id \in Chunk : pbMsg[id].state = "fulfilled"
  /\ IF \E id \in Chunk : pbMsg[id].state = "rejected"
     THEN /\ pbPc' = "threw"
          /\ UNCHANGED <<pbChunkStart, pbResults>>
     ELSE /\ pbResults' = pbResults \o
               SelectSeq(Slice(pbIds, pbChunkStart, concurrency),
                         LAMBDA id : pbMsg[id].value # "null")
          /\ pbChunkStart' = pbChunkStart + concurrency
          /\ pbPc' = IF pbChunkStart + concurrency < Len(pbIds) THEN "running" ELSE "returned"
  /\ UNCHANGED <<pbIds, pbMsg>>
  /\ UNCHANGED notPB

PBNext ==
  \/ \E id \in 1..MaxFetchIds : PbGet(id)
  \/ \E id \in 1..MaxFetchIds : PbRetry(id)
  \/ PbChunkDone

(***************************************************************************)
(* Token aggregation: the AI loop of runHybridCleanupAnalysis and          *)
(* runTraditionalCleanupAnalysis                                           *)
(***************************************************************************)

MaxAIBatches == 2

\* lines 855 / 1069: if (batchResults.length > 0 && batchResults[0].tokenUsage)
Counted(results) == Len(results) > 0 /\ results[1].tokenUsage.present

\* lines 854-876 / 1068-1090 and the loop step: the token usage of the batch
\* is aggregated, its analyses are pushed, the next batch starts
AggregateBatch ==
  /\ aggPc = "batches"
  /\ progPc = "done"
  /\ requestCount' = IF Counted(finalResults) THEN requestCount + 1 ELSE requestCount
  /\ aggProcessed' = aggProcessed + 1
  /\ IF aggProcessed + 1 < aggBatches
     THEN /\ \E n \in 1..MaxBatch : progEmails' = [k \in 1..n |-> k]
          /\ progPc' = "initial"
          /\ progCalls' = <<>>
          /\ initialResults' = <<>>
          /\ lowConfidenceEmails' = <<>>
          /\ enhancedResults' = <<>>
          /\ finalResults' = <<>>
          /\ UNCHANGED <<progMode, aggPc>>
     ELSE /\ aggPc' = "done"
          /\ UNCHANGED progVars
  /\ UNCHANGED aggBatches
  /\ UNCHANGED notProgAgg

AggNext ==
  \/ InitialPass
  \/ EnhancedPass
  \/ StandardBatch
  \/ AggregateBatch

(***************************************************************************)
(* Local pre-filter of runHybridCleanupAnalysis: canClassifyWithoutAI and  *)
(* getLocalAnalysis                                                        *)
(***************************************************************************)

\* the words of a stored subject or sender address: the keywords of the
\* pre-filter, the local part of a noreply address and a word that holds none
StoredWords == {"newsletter", "unsubscribe", "marketing", "sale", "% off",
                "limited time offer", "expires today", "noreply", "hello"}

StoredStrings ==
  UNION {[1..n -> [word : StoredWords, upper : BOOLEAN]] : n \in 0..MaxFragments}

NoAnalysis == [category |-> "none", cleanupRecommendation |-> "none"]

\* lines 917-934
canClassifyWithoutAI(email) ==
  LET subject == toLowerCase(email.subject)
      senderEmail == toLowerCase(email.senderEmail)
  IN \/ includes(subject, "newsletter") /\ includes(subject, "unsubscribe")
     \/ includes(senderEmail, "newsletter")
     \/ includes(senderEmail, "marketing")
     \/ includes(subject, "sale") /\ includes(subject, "% off")
     \/ includes(subject, "limited time offer")
     \/ includes(subject, "expires today")

\* lines 936-975
getLocalAnalysis(email) ==
  LET subject == toLowerCase(email.subject)
      senderEmail == toLowerCase(email.senderEmail)
  IN IF \/ includes(subject, "newsletter") /\ includes(subject, "unsubscribe")
        \/ includes(senderEmail, "newsletter")
     THEN [category |-> "newsletter", cleanupRecommendation |-> "delete"]
     ELSE IF \/ includes(subject, "sale") /\ includes(subject, "% off")
             \/ includes(subject, "limited time offer")
     THEN [category |-> "promotional", cleanupRecommendation |-> "delete"]
     ELSE IF includes(senderEmail, "marketing")
     THEN [category |-> "promotional", cleanupRecommendation |-> "delete"]
     ELSE [category |-> "unknown", cleanupRecommendation |-> "keep"]

\* lines 812-824: one iteration of emails.forEach
PartitionEmail ==
  /\ pfQueue = "pending"
  /\ IF canClassifyWithoutAI(pfEmail)
     THEN /\ pfAnalysis' = getLocalAnalysis(pfEmail)
          /\ pfQueue' = "preClassified"
     ELSE /\ pfQueue' = "needsAI"
          /\ UNCHANGED pfAnalysis
  /\ UNCHANGED pfEmail
  /\ UNCHANGED notPF

PFNext ==
  \/ PartitionEmail

(***************************************************************************)
(* Analysis-side classifier: GmailAnalyzer.classifyEmailCategory           *)
(***************************************************************************)

\* keywords that one of the two classifiers tests and the other does not, and
\* one both test
SideWords == {"newsletter", "weekly digest", "mentioned you", "sales"}

SideStrings ==
  UNION {[1..n -> [word : SideWords, upper : BOOLEAN]] : n \in 0..MaxFragments}

\* route.ts lines 1233-1294; email.senderEmail stands for
\* extractSenderEmail(email.from), which is what the sync passes to
\* classifyEmail as senderEmail (part_003 line 452)
classifyEmailCategory(email) ==
  LET subject == toLowerCase(email.subject)
      from == toLowerCase(email.from)
      senderEmail == toLowerCase(email.senderEmail)
  IN IF \/ includes(subject, "newsletter")
        \/ includes(subject, "unsubscribe")
        \/ includes(from, "newsletter")
        \/ includes(senderEmail, "newsletter")
        \/ includes(senderEmail, "marketing")
     THEN "newsletter"
     ELSE IF \/ \E kw \in {"sale", "discount", "offer", "deal", "% off"} :
                  includes(subject, kw)
             \/ \E kw \in {"deals", "offers", "sales"} : includes(from, kw)
     THEN "promotional"
     ELSE IF \/ \E kw \in {"facebook", "twitter", "linkedin", "instagram", "tiktok",
                           "snapchat", "youtube", "pinterest", "reddit"} :
                  includes(from, kw)
             \/ \E kw \in {"facebook.com", "twitter.com", "linkedin.com",
                           "instagram.com", "tiktok.com", "youtube.com"} :
                  includes(senderEmail, kw)
             \/ \E kw \in {"mentioned you", "tagged you", "liked your", "followed you"} :
                  includes(subject, kw)
     THEN "social"
     ELSE "unknown"

ClassifyEmailCategory ==
  /\ anaCategory = "pending"
  /\ anaCategory' = classifyEmailCategory(clfEmail)
  /\ UNCHANGED notAna

SideNext ==
  \/ ClassifyEmail
  \/ ClassifyEmailCategory

(***************************************************************************)
(* Batch results and per-message fallback: the try/catch of the AI loop    *)
(***************************************************************************)

\* the cleanupRecommendation of a result as parseBatchAnalysisResult leaves it:
\* the model's value when the entry has one, none otherwise
ResultRecommendations == {"delete", "keep", "absent"}

\* the positions of batchResults whose analysis.cleanupRecommendation.toUpperCase() throws
Throwing(results) == {k \in 1..Len(results) : results[k] = "absent"}

\* the first position that throws, Len(results) + 1 if none does
FirstThrowing(results) ==
  IF Throwing(results) = {} THEN Len(results) + 1
  ELSE CHOOSE k \in Throwing(results) : \A other \in Throwing(results) : k <= other

\* lines 865-876 / 1079-1090: batch.forEach pushes the analyses up to the
\* first one that throws; lines 878-882: the catch block starts the fallback
BatchResults ==
  /\ brPc = "results"
  /\ LET stop == FirstThrowing(brResults)
     IN /\ aiAnalyses' = aiAnalyses \o
                           [k \in 1..(stop - 1) |->
                              [emailId |-> k, cleanupRecommendation |-> brResults[k]]]
        /\ brPc' = IF stop > Len(brResults) THEN "done" ELSE "fallback"
        /\ brJ' = IF stop > Len(brResults) THEN 0 ELSE 1
  /\ UNCHANGED brResults
  /\ UNCHANGED notBR

\* lines 882-903 / 1096-1116: one iteration of the fallback loop:
\* analyzeEmailWithClaude returns the first result of a batch of one, which is
\* pushed whatever it holds
FallbackEmail ==
  /\ brPc = "fallback"
  /\ \E rec \in ResultRecommendations :
       aiAnalyses' = Append(aiAnalyses, [emailId |-> brJ, cleanupRecommendation |-> rec])
  /\ IF brJ < Len(brResults)
     THEN brJ' = brJ + 1 /\ UNCHANGED brPc
     ELSE brJ' = 0 /\ brPc' = "done"
  /\ UNCHANGED brResults
  /\ UNCHANGED notBR

BRNext ==
  \/ BatchResults
  \/ FallbackEmail

(***************************************************************************)
(* move-email: POST on a report, next to cleanupReportsAfterDeletion       *)
(***************************************************************************)

NumMoves == 2
MaxCleanups == 1

MoveRequests == 1..NumMoves

RecommendationTypes == {"delete", "keep"}

IdleRequest ==
  [pc |-> "idle", emailId |-> 0, newRecommendationType |-> "none",
   deletionCount |-> 0, keepCount |-> 0, status |-> 0]

\* prisma.emailCandidate.count({where: {reportId, recommendationType}})
CountType(candidates, reportId, type) ==
  Cardinality({c \in CandidatesOf(candidates, reportId) : c.recommendationType = type})

\* the report as saveReportToDatabase stores it (route.ts lines 1351-1403):
\* the summary counts are the lengths of the two candidate lists
SavedReport(candidates, reportId, user) ==
  [id |-> reportId, userEmail |-> user,
   deletionCandidates |-> CountType(candidates, reportId, "delete"),
   keepCandidates |-> CountType(candidates, reportId, "keep"),
   potentialSavings |-> SumSizes({c \in CandidatesOf(candidates, reportId) :
                                    c.recommendationType = "delete"})]

InFlight(q) == mvReqs[q].pc \notin {"idle", "done"}

Finish(q, status) == mvReqs' = [mvReqs EXCEPT ![q].pc = "done", ![q].status = status]

\* lines 299-317: the body is read and prisma.report.findFirst verifies the report
MoveStart(q, emailId, newRecommendationType) ==
  /\ mvReqs[q].pc = "idle"
  /\ IF \E r \in crReports : r.id = 1 /\ r.userEmail = "A"
     THEN mvReqs' = [mvReqs EXCEPT ![q] =
                       [IdleRequest EXCEPT !.pc = "update", !.emailId = emailId,
                                           !.newRecommendationType = newRecommendationType]]
     ELSE mvReqs' = [mvReqs EXCEPT ![q] =
                       [IdleRequest EXCEPT !.pc = "done", !.emailId = emailId,
                                           !.newRecommendationType = newRecommendationType,
                                           !.status = 404]]
  /\ mvOverlap' = (mvOverlap \/ \E other \in MoveRequests : InFlight(other))
  /\ UNCHANGED <<crVars, mvCleanups>>
  /\ UNCHANGED notCRMove

\* lines 320-332: prisma.emailCandidate.updateMany, 404 when it matched no row
MoveUpdate(q) ==
  /\ mvReqs[q].pc = "update"
  /\ LET matched == {c \in CandidatesOf(crCandidates, 1) : c.emailId = mvReqs[q].emailId}
     IN IF matched = {}
        THEN Finish(q, 404) /\ UNCHANGED crCandidates
        ELSE /\ crCandidates' = (crCandidates \ matched) \cup
                  {[c EXCEPT !.recommendationType = mvReqs[q].newRecommendationType] :
                     c \in matched}
             /\ mvReqs' = [mvReqs EXCEPT ![q].pc = "countDelete"]
  /\ UNCHANGED <<crReports, crSenders, crPc, crArgs, crBefore, crResult>>
  /\ UNCHANGED <<mvCleanups, mvOverlap>>
  /\ UNCHANGED notCRMove

\* lines 335-337: count of the delete candidates
MoveCountDelete(q) ==
  /\ mvReqs[q].pc = "countDelete"
  /\ mvReqs' = [mvReqs EXCEPT ![q].pc = "countKeep",
                              ![q].deletionCount = CountType(crCandidates, 1, "delete")]
  /\ UNCHANGED <<crVars, mvCleanups, mvOverlap>>
  /\ UNCHANGED notCRMove

\* lines 339-341: count of the keep candidates
MoveCountKeep(q) ==
  /\ mvReqs[q].pc = "countKeep"
  /\ mvReqs' = [mvReqs EXCEPT ![q].pc = "reportUpdate",
                              ![q].keepCount = CountType(crCandidates, 1, "keep")]
  /\ UNCHANGED <<crVars, mvCleanups, mvOverlap>>
  /\ UNCHANGED notCRMove

\* lines 344-359: prisma.report.update with the two counts and the response;
\* lines 361-367: the update rejects when the report is gone, the answer is 500
MoveReportUpdate(q) ==
  /\ mvReqs[q].pc = "reportUpdate"
  /\ LET found == {r \in crReports : r.id = 1}
     IN IF found = {}
        THEN Finish(q, 500) /\ UNCHANGED crReports
        ELSE /\ crReports' = (crReports \ found) \cup
                  {[r EXCEPT !.deletionCandidates = mvReqs[q].deletionCount,
                             !.keepCandidates = mvReqs[q].keepCount] : r \in found}
             /\ Finish(q, 200)
  /\ UNCHANGED <<crCandidates, crSenders, crPc, crArgs, crBefore, crResult>>
  /\ UNCHANGED <<mvCleanups, mvOverlap>>
  /\ UNCHANGED notCRMove

\* part_005 lines 542-634: a cleanupReportsAfterDeletion transaction commits
MoveCleanup(deletedGmailIds) ==
  /\ mvCleanups < MaxCleanups
  /\ mvCleanups' = mvCleanups + 1
  /\ LET db == Tables(crReports, crCandidates, crSenders)
         out == cleanupReportsAfterDeletion(db, "A", deletedGmailIds)
     IN /\ crReports' = out.db.reports
        /\ crCandidates' = out.db.candidates
        /\ crSenders' = out.db.senders
        /\ crResult' = out.result
        /\ crBefore' = db
  /\ crArgs' = [userEmail |-> "A", deletedGmailIds |-> deletedGmailIds]
  /\ UNCHANGED <<crPc, mvReqs, mvOverlap>>
  /\ UNCHANGED notCRMove

MoveNext ==
  \/ \E q \in MoveRequests, emailId \in EmailIds, type \in RecommendationTypes :
       MoveStart(q, emailId, type)
  \/ \E q \in MoveRequests : MoveUpdate(q)
  \/ \E q \in MoveRequests : MoveCountDelete(q)
  \/ \E q \in MoveRequests : MoveCountKeep(q)
  \/ \E q \in MoveRequests : MoveReportUpdate(q)
  \/ \E deletedGmailIds \in SUBSET EmailIds : MoveCleanup(deletedGmailIds)

(***************************************************************************)
(* SyncStatus.syncInProgress against the SyncSession rows of one user:     *)
(* syncEmails calls, the sync reset route and the sync status route        *)
(***************************************************************************)

NumSyncRuns == 2

SyncRuns == 1..NumSyncRuns

\* part_005 lines 248-268: the upsert writes the flag and refreshes updatedAt
UpdateSyncStatusFlag(flag) ==
  /\ ssInProgress' = flag
  /\ ssStuck' = FALSE

\* the call is inside its try block, before or after its first batch
Working(r) == ssRuns[r] = "work" \/ ssRuns[r] = "batches"

\* part_003 line 173: createSyncSession, status in_progress
SsCreateSession(r) ==
  /\ ssRuns[r] = "idle"
  /\ ssSessions' = [ssSessions EXCEPT ![r] = "in_progress"]
  /\ ssRuns' = [ssRuns EXCEPT ![r] = "mark"]
  /\ UNCHANGED <<ssInProgress, ssStuck, ssPolled>>
  /\ UNCHANGED notSS

\* lines 177-181: updateSyncStatus({syncInProgress: true})
SsMarkInProgress(r) ==
  /\ ssRuns[r] = "mark"
  /\ UpdateSyncStatusFlag(TRUE)
  /\ ssRuns' = [ssRuns EXCEPT ![r] = "work"]
  /\ UNCHANGED <<ssSessions, ssPolled>>
  /\ UNCHANGED notSS

\* lines 239-249: a batch is done, updateSyncStatus({syncInProgress: true})
SsBatchProgress(r) ==
  /\ Working(r)
  /\ UpdateSyncStatusFlag(TRUE)
  /\ ssRuns' = [ssRuns EXCEPT ![r] = "batches"]
  /\ UNCHANGED <<ssSessions, ssPolled>>
  /\ UNCHANGED notSS

\* lines 195-199 / 277-280: updateSyncSession({status: 'completed'})
SsCompleteSession(r) ==
  /\ Working(r)
  /\ ssSessions' = [ssSessions EXCEPT ![r] = "completed"]
  /\ ssRuns' = [ssRuns EXCEPT ![r] = "completeStatus"]
  /\ UNCHANGED <<ssInProgress, ssStuck, ssPolled>>
  /\ UNCHANGED notSS

\* lines 200-205 / 283-297: updateSyncStatus({syncInProgress: false}), return
SsCompleteStatus(r) ==
  /\ ssRuns[r] = "completeStatus"
  /\ UpdateSyncStatusFlag(FALSE)
  /\ ssRuns' = [ssRuns EXCEPT ![r] = "done"]
  /\ UNCHANGED <<ssSessions, ssPolled>>
  /\ UNCHANGED notSS

\* something in the try block throws; lines 261-267 / 303-306:
\* updateSyncSession({status: 'failed'})
SsFailSession(r) ==
  /\ Working(r)
  /\ ssSessions' = [ssSessions EXCEPT ![r] = "failed"]
  /\ ssRuns' = [ssRuns EXCEPT ![r] = "failStatus"]
  /\ UNCHANGED <<ssInProgress, ssStuck, ssPolled>>
  /\ UNCHANGED notSS

\* lines 309-314: updateSyncStatus({syncInProgress: false}), throw
SsFailStatus(r) ==
  /\ ssRuns[r] = "failStatus"
  /\ UpdateSyncStatusFlag(FALSE)
  /\ ssRuns' = [ssRuns EXCEPT ![r] = "threw"]
  /\ UNCHANGED <<ssSessions, ssPolled>>
  /\ UNCHANGED notSS

\* part_003 lines 80-107, POST sync reset: updateSyncStatus({syncInProgress: false})
SsReset ==
  /\ UpdateSyncStatusFlag(FALSE)
  /\ UNCHANGED <<ssRuns, ssSessions, ssPolled>>
  /\ UNCHANGED notSS

\* part_004 lines 13-41, GET sync status: a flag that has been set for more
\* than ten minutes is reset
SsPoll ==
  /\ IF ssInProgress /\ ssStuck
     THEN UpdateSyncStatusFlag(FALSE) /\ ssPolled' = FALSE
     ELSE ssPolled' = ssInProgress /\ UNCHANGED <<ssInProgress, ssStuck>>
  /\ UNCHANGED <<ssRuns, ssSessions>>
  /\ UNCHANGED notSS

\* ten minutes pass without a write to the SyncStatus row
SsTenMinutes ==
  /\ ~ssStuck
  /\ ssStuck' = TRUE
  /\ UNCHANGED <<ssRuns, ssSessions, ssInProgress, ssPolled>>
  /\ UNCHANGED notSS

SSNext ==
  \/ \E r \in SyncRuns : SsCreateSession(r)
  \/ \E r \in SyncRuns : SsMarkInProgress(r)
  \/ \E r \in SyncRuns : SsBatchProgress(r)
  \/ \E r \in SyncRuns : SsCompleteSession(r)
  \/ \E r \in SyncRuns : SsCompleteStatus(r)
  \/ \E r \in SyncRuns : SsFailSession(r)
  \/ \E r \in SyncRuns : SsFailStatus(r)
  \/ SsReset
  \/ SsPoll
  \/ SsTenMinutes

(***************************************************************************)
(* Token totals: the per-email rounding of analyzeBatchEmailsWithClaude    *)
(* and the aggregation of the AI loop                                      *)
(***************************************************************************)

MaxTokens == 3

\* Math.round(x / n) for x >= 0, n > 0: halves round up
Round(x, n) == (2 * x + n) \div (2 * n)

\* lines 212-216: the usage of the response
TokenUsage(inputTokens, outputTokens) ==
  [inputTokens |-> inputTokens, outputTokens |-> outputTokens,
   totalTokens |-> inputTokens + outputTokens]

\* lines 222-226: the usage attached to every result of a batch of n emails
tokenUsagePerEmail(tokenUsage, n) ==
  [inputTokens |-> Round(tokenUsage.inputTokens, n),
   outputTokens |-> Round(tokenUsage.outputTokens, n),
   totalTokens |-> Round(tokenUsage.totalTokens, n)]

\* lines 855-862: the usage of the first result times the number of results
\* is added to the totals
AggregateTokens(n, inputTokens, outputTokens) ==
  /\ tokProcessed < MaxAIBatches
  /\ LET batchTokenUsage == tokenUsagePerEmail(TokenUsage(inputTokens, outputTokens), n)
     IN totalTokenUsage' =
          [inputTokens |-> totalTokenUsage.inputTokens + batchTokenUsage.inputTokens * n,
           outputTokens |-> totalTokenUsage.outputTokens + batchTokenUsage.outputTokens * n,
           totalTokens |-> totalTokenUsage.totalTokens + batchTokenUsage.totalTokens * n]
  /\ tokProcessed' = tokProcessed + 1
  /\ UNCHANGED notTok

TokNext ==
  \/ \E n \in 1..MaxBatch, inputTokens \in 0..MaxTokens, outputTokens \in 0..MaxTokens :
       AggregateTokens(n, inputTokens, outputTokens)

(***************************************************************************)
(* Session token: authOptions.callbacks.jwt and refreshAccessToken         *)
(***************************************************************************)

\* lifetime of an access token in seconds (expires_in), scaled down
MaxExpiresIn == 2
MaxSeconds == 6
MaxJwtCalls == 3

\* line 1493: Date.now() < token.accessTokenExpires * 1000
NotExpiredYet(token, now) == now < token.accessTokenExpires * 1000

\* lines 1486-1490, sign-in: account.expires_at is in seconds
SignedIn(accessToken, expiresAt) ==
  [accessToken |-> accessToken, accessTokenExpires |-> expiresAt, error |-> FALSE]

\* lines 1534-1539: the refreshed token, expiry written as Date.now() + expires_in * 1000
Refreshed(token, now, expiresIn) ==
  [token EXCEPT !.accessToken = @ + 1,
                !.accessTokenExpires = now + expiresIn * 1000]

\* lines 1540-1547
RefreshFailed(token) == [token EXCEPT !.error = TRUE]

\* lines 1485-1499 without an account: the token is returned as it is while it
\* has not expired, else refreshAccessToken is called
JwtCallback ==
  /\ jwtCalls < MaxJwtCalls
  /\ jwtCalls' = jwtCalls + 1
  /\ IF NotExpiredYet(jwtToken, jwtNow)
     THEN /\ jwtLast' = "kept"
          /\ UNCHANGED <<jwtToken, jwtRealExpiry, jwtRefreshes>>
     ELSE \/ \E expiresIn \in 1..MaxExpiresIn :
               /\ jwtToken' = Refreshed(jwtToken, jwtNow, expiresIn)
               /\ jwtRealExpiry' = jwtNow + expiresIn * 1000
               /\ jwtRefreshes' = jwtRefreshes + 1
               /\ jwtLast' = "refreshed"
          \/ /\ jwtToken' = RefreshFailed(jwtToken)
             /\ jwtLast' = "failed"
             /\ UNCHANGED <<jwtRealExpiry, jwtRefreshes>>
  /\ UNCHANGED jwtNow
  /\ UNCHANGED notJwt

\* a second passes
JwtSecond ==
  /\ jwtNow < MaxSeconds * 1000
  /\ jwtNow' = jwtNow + 1000
  /\ UNCHANGED <<jwtToken, jwtRealExpiry, jwtRefreshes, jwtCalls, jwtLast>>
  /\ UNCHANGED notJwt

JwtNext ==
  \/ JwtCallback
  \/ JwtSecond

(***************************************************************************)
(* Specifications                                                          *)
(***************************************************************************)

\* no sync has run and nothing is stored
SyncIdle == SyncInit /\ emails = {}

ReportIdle ==
  /\ analyses = <<>>
  /\ report = NoReport

ProgIdle ==
  /\ progEmails = <<>>
  /\ progPc = "done"
  /\ initialResults = <<>>
  /\ lowConfidenceEmails = <<>>
  /\ enhancedResults = <<>>
  /\ finalResults = <<>>
  /\ progMode = "auto"
  /\ progCalls = <<>>

\* no classification call is in progress
ClsIdle ==
  /\ clsEmails = <<>>
  /\ clsPass = "initial"
  /\ clsSend = [outcome |-> "rejects", text |-> <<>>]
  /\ clsPc = "returned"
  /\ clsParsed = NotParsed
  /\ clsResults = Value(<<>>)

\* no hybrid analysis is in progress
HybIdle ==
  /\ hybEmails = <<>>
  /\ hybLowIds = {}
  /\ hybPc = "done"
  /\ hybPreClassified = <<>>
  /\ hybNeedsAI = <<>>
  /\ hybStart = 0
  /\ hybEnhancedCalls = <<>>
  /\ hybAiAnalyses = <<>>
  /\ hybReport = NoReport

\* classifyEmail is not being called
ClfIdle ==
  /\ clfEmail = [subject |-> <<>>, from |-> <<>>, senderEmail |-> <<>>]
  /\ clfCategory = "none"

\* no report is stored and no cleanup is running
CRIdle ==
  /\ crReports = {}
  /\ crCandidates = {}
  /\ crSenders = {}
  /\ crPc = "done"
  /\ crArgs = [userEmail |-> "A", deletedGmailIds |-> {}]
  /\ crBefore = Tables({}, {}, {})
  /\ crResult = NoCleanupResult

\* no delete-emails request is being served
DelIdle ==
  /\ delEmailIds = <<>>
  /\ delPc = "done"
  /\ delBatchStart = 0
  /\ delResults = NoResults
  /\ delLocal = {}
  /\ delReportsCleaned = FALSE
  /\ delCleanedIds = {}
  /\ delCleanupError = "none"
  /\ delDeleted = NoResults
  /\ delResponse = NoResponse

\* processBatch is not running
PBIdle ==
  /\ pbIds = <<>>
  /\ pbPc = "returned"
  /\ pbChunkStart = 0
  /\ pbMsg = <<>>
  /\ pbResults = <<>>

\* nobody has signed in
JwtIdle ==
  /\ jwtNow = 0
  /\ jwtToken = SignedIn(0, 0)
  /\ jwtRealExpiry = 0
  /\ jwtRefreshes = 0
  /\ jwtCalls = 0
  /\ jwtLast = "none"

\* lines 829-834: the totals of a run that made no AI request
TokIdle ==
  /\ totalTokenUsage = TokenUsage(0, 0)
  /\ tokProcessed = 0

\* no sync has been requested for the user
SSIdle ==
  /\ ssRuns = <<>>
  /\ ssSessions = <<>>
  /\ ssInProgress = FALSE
  /\ ssStuck = FALSE
  /\ ssPolled = FALSE

\* no move-email request has been made
MoveIdle ==
  /\ mvReqs = <<>>
  /\ mvCleanups = 0
  /\ mvOverlap = FALSE

\* no batch of results is being processed
BRIdle ==
  /\ brResults = <<>>
  /\ brPc = "done"
  /\ brJ = 0
  /\ aiAnalyses = <<>>

\* classifyEmailCategory is not being called
AnaIdle == anaCategory = "unknown"

\* no row is being partitioned
PFIdle ==
  /\ pfEmail = [subject |-> <<>>, senderEmail |-> <<>>]
  /\ pfQueue = "needsAI"
  /\ pfAnalysis = NoAnalysis

\* no AI loop is running
AggIdle ==
  /\ aggPc = "done"
  /\ aggBatches = 0
  /\ aggProcessed = 0
  /\ requestCount = 0

\* the components added after the first four, all but `g` at rest
LaterIdleExceptAll(gs) ==
  /\ IF "cls" \in gs THEN TRUE ELSE ClsIdle
  /\ IF "hyb" \in gs THEN TRUE ELSE HybIdle
  /\ IF "clf" \in gs THEN TRUE ELSE ClfIdle
  /\ IF "cr" \in gs THEN TRUE ELSE CRIdle
  /\ IF "del" \in gs THEN TRUE ELSE DelIdle
  /\ IF "pb" \in gs THEN TRUE ELSE PBIdle
  /\ IF "agg" \in gs THEN TRUE ELSE AggIdle
  /\ IF "pf" \in gs THEN TRUE ELSE PFIdle
  /\ IF "ana" \in gs THEN TRUE ELSE AnaIdle
  /\ IF "br" \in gs THEN TRUE ELSE BRIdle
  /\ IF "mv" \in gs THEN TRUE ELSE MoveIdle
  /\ IF "ss" \in gs THEN TRUE ELSE SSIdle
  /\ IF "tok" \in gs THEN TRUE ELSE TokIdle
  /\ IF "jwt" \in gs THEN TRUE ELSE JwtIdle

LaterIdleExcept(g) == LaterIdleExceptAll({g})

LaterIdle == LaterIdleExcept("none")

\* the first four components at rest
BaseIdle == RLInit /\ SyncIdle /\ ReportIdle /\ ProgIdle

InitRL == RLInit /\ SyncIdle /\ ReportIdle /\ ProgIdle /\ LaterIdle

SpecRL == InitRL /\ [][RLNext]_vars

InitSync == RLInit /\ SyncInit /\ ReportIdle /\ ProgIdle /\ LaterIdle

SpecSync == InitSync /\ [][SyncNext]_vars

\* the analyses of a run: one per email that received a result
InitReport ==
  /\ RLInit /\ SyncIdle /\ ProgIdle /\ LaterIdle
  /\ \E n \in 0..MaxAnalyses :
       analyses \in {f \in [1..n -> UNION {AnalysesOf(k) : k \in 1..n}] :
                       \A k \in 1..n : f[k] \in AnalysesOf(k)}
  /\ report = NoReport

SpecReport == InitReport /\ [][ReportNext]_vars

\* a batch of 1..MaxBatch emails, identified by their position
InitProg ==
  /\ RLInit /\ SyncIdle /\ ReportIdle /\ LaterIdle
  /\ \E n \in 1..MaxBatch : progEmails = [k \in 1..n |-> k]
  /\ progPc = "initial"
  /\ initialResults = <<>>
  /\ lowConfidenceEmails = <<>>
  /\ enhancedResults = <<>>
  /\ finalResults = <<>>
  /\ progMode = "auto"
  /\ progCalls = <<>>

SpecProg == InitProg /\ [][ProgNext]_vars

\* one AI batch of 1..MaxBatch emails in each of the three modes
InitBatch ==
  /\ RLInit /\ SyncIdle /\ ReportIdle /\ LaterIdle
  /\ \E n \in 1..MaxBatch : progEmails = [k \in 1..n |-> k]
  /\ progMode \in {"auto", "fast", "full"}
  /\ progCalls = <<>>
  /\ progPc = "initial"
  /\ initialResults = <<>>
  /\ lowConfidenceEmails = <<>>
  /\ enhancedResults = <<>>
  /\ finalResults = <<>>

SpecBatch == InitBatch /\ [][BatchNext]_vars

\* a call of either pass on 1..MaxBatch emails, for every outcome of the invocation
InitCls ==
  /\ BaseIdle /\ LaterIdleExcept("cls")
  /\ \E n \in 1..MaxBatch : clsEmails = [k \in 1..n |-> k]
  /\ clsPass \in {"initial", "enhanced"}
  /\ clsSend \in SendOutcomes
  /\ clsPc = "awaiting"
  /\ clsParsed = NotParsed
  /\ clsResults = Value(<<>>)

SpecCls == InitCls /\ [][ClsNext]_vars

InitSc == RLInit /\ ScInit /\ ReportIdle /\ ProgIdle /\ LaterIdle

SpecSc == InitSc /\ [][ScNext]_vars

\* limit = HybLocal + HybNeedsAI emails, the locally classifiable ones first;
\* the HybLow low-confidence results fall on consecutive emails of needsAI,
\* starting anywhere
InitHyb ==
  /\ BaseIdle /\ LaterIdleExcept("hyb")
  /\ hybEmails = [k \in 1..(HybLocal + HybNeedsAI) |-> [id |-> k, local |-> k <= HybLocal]]
  /\ \E first \in 1..(HybNeedsAI - HybLow + 1) :
       hybLowIds = (HybLocal + first)..(HybLocal + first + HybLow - 1)
  /\ hybPc = "partition"
  /\ hybPreClassified = <<>>
  /\ hybNeedsAI = <<>>
  /\ hybStart = 0
  /\ hybEnhancedCalls = <<>>
  /\ hybAiAnalyses = <<>>
  /\ hybReport = NoReport

SpecHyb == InitHyb /\ [][HybNext]_vars

\* classifyEmail is called with any subject, from and senderEmail
InitClf ==
  /\ BaseIdle /\ LaterIdleExcept("clf")
  /\ clfEmail \in [subject : Strings, from : Strings, senderEmail : Strings]
  /\ clfCategory = "pending"

SpecClf == InitClf /\ [][ClfNext]_vars

\* every report has an owner and a summary that agrees with its candidate
\* rows, as saveReport writes it; a report may have sender rows
InitCR ==
  /\ BaseIdle /\ LaterIdleExcept("cr")
  /\ crCandidates \in SUBSET CandidateRows
  /\ \E owner \in [ReportIds -> Users] :
       crReports = {[id |-> r, userEmail |-> owner[r],
                     deletionCandidates |-> Cardinality(CandidatesOf(crCandidates, r)),
                     potentialSavings |-> SumSizes(CandidatesOf(crCandidates, r))] :
                    r \in ReportIds}
  /\ \E withSenders \in SUBSET ReportIds : crSenders = {[reportId |-> r] : r \in withSenders}
  /\ crPc = "idle"
  /\ crArgs = [userEmail |-> "A", deletedGmailIds |-> {}]
  /\ crBefore = Tables({}, {}, {})
  /\ crResult = NoCleanupResult

SpecCR == InitCR /\ [][CRNext]_vars

\* a request for the IDs 1..n arrives; any of them may have a local row
InitDel ==
  /\ BaseIdle /\ LaterIdleExcept("del")
  /\ \E n \in 0..MaxDelIds : delEmailIds = [k \in 1..n |-> k]
  /\ delLocal \in SUBSET (1..MaxDelIds)
  /\ delPc = "start"
  /\ delBatchStart = 0
  /\ delResults = NoResults
  /\ delReportsCleaned = FALSE
  /\ delCleanedIds = {}
  /\ delCleanupError = "none"
  /\ delDeleted = NoResults
  /\ delResponse = NoResponse

SpecDel == InitDel /\ [][DelNext]_vars

\* processBatch is called with a batch of one to MaxFetchIds message IDs
InitPB ==
  /\ BaseIdle /\ LaterIdleExcept("pb")
  /\ \E n \in 1..MaxFetchIds :
       /\ pbIds = [k \in 1..n |-> k]
       /\ pbMsg = [k \in 1..n |-> Unfetched]
  /\ pbPc = "running"
  /\ pbChunkStart = 0
  /\ pbResults = <<>>

SpecPB == InitPB /\ [][PBNext]_vars

\* an analysis run of 1..MaxAIBatches AI batches in any mode, at its first batch
InitAgg ==
  /\ RLInit /\ SyncIdle /\ ReportIdle /\ LaterIdleExcept("agg")
  /\ \E n \in 1..MaxBatch : progEmails = [k \in 1..n |-> k]
  /\ progMode \in {"auto", "fast", "full"}
  /\ progCalls = <<>>
  /\ progPc = "initial"
  /\ initialResults = <<>>
  /\ lowConfidenceEmails = <<>>
  /\ enhancedResults = <<>>
  /\ finalResults = <<>>
  /\ aggPc = "batches"
  /\ aggBatches \in 1..MaxAIBatches
  /\ aggProcessed = 0
  /\ requestCount = 0

SpecAgg == InitAgg /\ [][AggNext]_vars

\* a stored row about to be partitioned
InitPF ==
  /\ BaseIdle /\ LaterIdleExcept("pf")
  /\ pfEmail \in [subject : StoredStrings, senderEmail : StoredStrings]
  /\ pfQueue = "pending"
  /\ pfAnalysis = NoAnalysis

SpecPF == InitPF /\ [][PFNext]_vars

\* one message about to be classified at sync time and at analysis time
InitSide ==
  /\ BaseIdle
  /\ LaterIdleExceptAll({"clf", "ana"})
  /\ clfEmail \in [subject : SideStrings, from : SideStrings, senderEmail : SideStrings]
  /\ clfCategory = "pending"
  /\ anaCategory = "pending"

SpecSide == InitSide /\ [][SideNext]_vars

\* the classifier has returned the results of a batch of 1..MaxBatch emails
InitBR ==
  /\ BaseIdle /\ LaterIdleExcept("br")
  /\ \E n \in 1..MaxBatch : brResults \in [1..n -> ResultRecommendations]
  /\ brPc = "results"
  /\ brJ = 0
  /\ aiAnalyses = <<>>

SpecBR == InitBR /\ [][BRNext]_vars

\* user A has one saved report, number 1, whose candidates are any of the
\* emails, each listed for deletion or to keep
InitMove ==
  /\ BaseIdle /\ LaterIdleExceptAll({"cr", "mv"})
  /\ \E listed \in [EmailIds -> RecommendationTypes \cup {"none"}] :
       crCandidates = {[emailId |-> m, reportId |-> 1, size |-> 10 * m,
                        recommendationType |-> listed[m]] :
                         m \in {x \in EmailIds : listed[x] # "none"}}
  /\ crReports = {SavedReport(crCandidates, 1, "A")}
  /\ crSenders = {}
  /\ crPc = "idle"
  /\ crArgs = [userEmail |-> "A", deletedGmailIds |-> {}]
  /\ crBefore = Tables({}, {}, {})
  /\ crResult = NoCleanupResult
  /\ mvReqs = [q \in MoveRequests |-> IdleRequest]
  /\ mvCleanups = 0
  /\ mvOverlap = FALSE

SpecMove == InitMove /\ [][MoveNext]_vars

\* the user has no SyncSession row and a SyncStatus row that is not in progress
InitSS ==
  /\ BaseIdle /\ LaterIdleExcept("ss")
  /\ ssRuns = [r \in SyncRuns |-> "idle"]
  /\ ssSessions = [r \in SyncRuns |-> "none"]
  /\ ssInProgress = FALSE
  /\ ssStuck = FALSE
  /\ ssPolled = FALSE

SpecSS == InitSS /\ [][SSNext]_vars

\* an analysis run before its first AI batch
InitTok == BaseIdle /\ LaterIdle

SpecTok == InitTok /\ [][TokNext]_vars

\* the user has just signed in at second 1: the JWT holds access token 1 and
\* account.expires_at, the second at which it expires
InitJwt ==
  /\ BaseIdle /\ LaterIdleExcept("jwt")
  /\ jwtNow = 1000
  /\ \E expiresIn \in 1..MaxExpiresIn :
       /\ jwtToken = SignedIn(1, 1 + expiresIn)
       /\ jwtRealExpiry = (1 + expiresIn) * 1000
  /\ jwtRefreshes = 0
  /\ jwtCalls = 0
  /\ jwtLast = "none"

SpecJwt == InitJwt /\ [][JwtNext]_vars

(***************************************************************************)
(* RateLimiter claims                                                      *)
(***************************************************************************)

\* the recorded timestamps within the window of length windowMs ending at t
InInterval(t) == {j \in 1..Len(recorded) : recorded[j] <= t /\ t - recorded[j] < windowMs}

\* C1: no interval of length windowMs contains more than maxRequests
\* recorded waitIfNeeded() timestamps, whatever the interleaving of callers.
C1_WindowBound ==
  \A i \in 1..Len(recorded) : Cardinality(InInterval(recorded[i])) <= maxRequests

\* C2: any two consecutively recorded waitIfNeeded() timestamps are at least
\* minDelayMs apart, whatever the interleaving of callers.
C2_MinSpacing ==
  \A i \in 1..(Len(recorded) - 1) : recorded[i + 1] - recorded[i] >= minDelayMs


(***************************************************************************)
(* Mailbox sync claims                                                     *)
(***************************************************************************)

\* the row is gone after the step: no row with its gmailId and owner is left
Deleted(r) == ~\E q \in emails' : q.gmailId = r.gmailId /\ q.userEmail = r.userEmail

InRange(date, range) == date >= range.startDate[1] /\ date <= range.endDate

\* C3: once the run's SyncSession is completed or failed, no later step of
\* the same run changes its status.
C3_TerminalFinal ==
  [][(session.status \in {"completed", "failed"} /\ runs' = runs)
       => session'.status = session.status]_vars

\* C4: in a time-bounded sync (startDate not null) no step deletes a row of
\* the user whose date lies outside [startDate, endDate], whether or not its
\* ID was processed in the run.
C4_CleanupWithinRange ==
  [][syncRange'.startDate # <<>>
       => \A r \in emails :
            (r.userEmail = userEmail' /\ ~InRange(r.date, syncRange')) => ~Deleted(r)]_vars

\* a bounded sync's cleanup removed a row while an unprocessed row of the
\* user dated outside the range stayed
C4_Witness ==
  /\ pc = "completeSession"
  /\ syncRange.startDate # <<>>
  /\ deletedResult.ran /\ deletedResult.rows # {}
  /\ \E r \in emails : /\ r.userEmail = userEmail
                       /\ r.gmailId \notin allProcessedGmailIds
                       /\ ~InRange(r.date, syncRange)

\* C5: a row deleted by a step of the run is not one of a message the run's
\* remote listing returned, whatever the detail fetches did.
C5_OnlyOrphansDeleted ==
  [][\A r \in emails : Deleted(r) => r.gmailId \notin Range(messageIds)]_vars

\* C6: once a batch of the run has failed, the run performs no orphan
\* deletion and every message persisted by the earlier batches keeps its row
\* to the end of the run.
C6_FailureKeepsProgress ==
  [][failedBatch > 0
       => /\ ~deletedResult'.ran
          /\ \A id \in allProcessedGmailIds : \E q \in emails' : q.gmailId = id]_vars

\* the run failed in its second batch with the first batch persisted
C6_Witness ==
  /\ pc = "catchStatus"
  /\ failedBatch >= 2
  /\ allProcessedGmailIds # {}
  /\ session.status = "failed"

\* C7: a completed run that repeats the previous completed run (same user,
\* options and date range, remote mailbox unchanged) leaves the same rows,
\* and the table holds at most one row per gmailId.
C7_Idempotent ==
  /\ (pc = "done" /\ prevRows # <<>>) => lastRun.rows = prevRows[1]
  /\ \A r \in emails, q \in emails : r.gmailId = q.gmailId => r = q

\* C8: no step of a sync run for one user creates, changes or deletes a row
\* owned by another user.
C8_NoCrossUser ==
  [][\A u \in Users \ {userEmail'} :
       {r \in emails : r.userEmail = u} = {r \in emails' : r.userEmail = u}]_vars

(***************************************************************************)
(* Report and progressive analysis claims                                  *)
(***************************************************************************)

\* C9: in a generated report the deletion and keep candidates together number
\* summary.totalEmails, and potentialSavings is the sum of the sizes of the
\* messages recommended delete or archive.
C9_ReportConsistent ==
  report.generated =>
    /\ Len(report.deletionCandidates) + Len(report.keepCandidates)
         = report.summary.totalEmails
    /\ report.summary.potentialSavings
         = SumSeq([k \in 1..Len(analyses) |->
                     IF analyses[k].cleanupRecommendation \in {"delete", "archive"}
                     THEN analyses[k].originalEmail.size ELSE 0])

\* the positions of the batch whose initial result has confidence low
LowPositions == {p \in 1..Len(initialResults) : initialResults[p].confidence = "low"}

\* the place of position p among the low-confidence positions
RankOf(p) == Cardinality({q \in LowPositions : q <= p})

\* C10: when analyzeEmailsProgressively has returned, the final list is as
\* long as the batch; each position with a low-confidence initial result
\* holds the enhanced-pass result for that position's email with
\* tokenUsage.followUpRequest set, and every other position holds its
\* initial result.
C10_EscalationSplice ==
  progPc = "done" =>
    /\ Len(finalResults) = Len(progEmails)
    /\ \A p \in 1..Len(progEmails) :
         IF p \in LowPositions
         THEN /\ finalResults[p].pass = "enhanced"
              /\ finalResults[p].email = progEmails[p]
              /\ finalResults[p].tokenUsage.followUpRequest
              /\ finalResults[p] =
                   [enhancedResults[RankOf(p)] EXCEPT !.tokenUsage =
                      [@ EXCEPT !.present = TRUE, !.followUpRequest = TRUE]]
         ELSE finalResults[p] = initialResults[p]

\* the enhanced pass ran for a low-confidence position that is not the first
\* of the batch, the first position having kept its initial result
C10_Witness ==
  /\ progPc = "done"
  /\ Len(progEmails) >= 2
  /\ 1 \notin LowPositions
  /\ 2 \in LowPositions
  /\ finalResults[2].pass = "enhanced"
  /\ finalResults[1] = initialResults[1]

(***************************************************************************)
(* AI classification claims                                                *)
(***************************************************************************)

\* C11: whatever the response text, parseBatchAnalysisResult(response,
\* expectedCount) returns without throwing and its result has exactly
\* expectedCount entries.
C11_ParseRobust ==
  (clsPc = "returned" /\ clsParsed.called) =>
    /\ ~clsParsed.result.threw
    /\ Len(clsParsed.result.value[1]) = Len(clsEmails)

\* the response was an array with a null entry and fewer entries than emails
C11_Witness ==
  /\ clsPc = "returned" /\ clsParsed.called
  /\ LET text == StripFences(clsSend.text)
     IN /\ Len(text) = 1 /\ text[1].tok = "json"
        /\ text[1].value[1].json = "array"
        /\ Len(text[1].value[1].items) < Len(clsEmails)
        /\ \E k \in 1..Len(text[1].value[1].items) : text[1].value[1].items[k].kind = "null"

\* C12: when the invocation of either pass fails, the call returns, without
\* throwing, one result per email of the batch, each the default analysis
\* (recommendation keep, confidence low).
C12_InvocationFailureDefaults ==
  (clsPc = "returned" /\ InvocationFailed(clsSend)) =>
    /\ ~clsResults.threw
    /\ Len(clsResults.value[1]) = Len(clsEmails)
    /\ \A k \in 1..Len(clsEmails) :
         /\ clsResults.value[1][k].cleanupRecommendation = "keep"
         /\ clsResults.value[1][k].confidence = "low"
         /\ clsResults.value[1][k] = getDefaultAnalysis(clsPass, clsEmails[k])

\* the enhanced pass's send rejected for a batch of several emails
C12_Witness ==
  /\ clsPc = "returned"
  /\ clsPass = "enhanced"
  /\ clsSend.outcome = "rejects"
  /\ Len(clsEmails) >= 2
  /\ Len(clsResults.value[1]) = Len(clsEmails)

(***************************************************************************)
(* Sync outcome claims                                                     *)
(***************************************************************************)

\* C13: once a batch of the run has thrown, the run ends by throwing, with
\* the session failed and its error message set, and the user's sync status
\* not in progress with the error message recorded.
C13_BatchFailureOutcome ==
  [][failedBatch > 0
       => /\ pc' \in {"catch", "catchStatus", "threw"}
          /\ (pc' = "threw"
                => (/\ session'.status = "failed"
                    /\ session'.errorMessage
                    /\ ~syncStatus'[userEmail'].syncInProgress
                    /\ syncStatus'[userEmail'].errorMessage))]_vars

\* C14: a finished syncEmails call (returned or thrown) has left its session
\* completed or failed, never in_progress.
C14_SessionTerminates ==
  pc \in {"done", "threw"} => session.status \in {"completed", "failed"}

\* what C15 says the zero-ID path leaves behind
ZeroOutcome(sess, status, result) ==
  /\ sess.status = "completed" /\ sess.totalEmails = 0
  /\ ~status.syncInProgress /\ status.totalEmails = 0
  /\ result.success
  /\ result.totalEmails = 0 /\ result.newEmails = 0 /\ result.deletedEmails = 0

\* that outcome in the state a step leads to
ZeroOutcomeNext == ZeroOutcome(session', syncStatus'[userEmail'], syncResult')

C16_Scenario230 ==
  (pc = "done" /\ options = "7d" /\ Cardinality(remote["A"]) = 230
     /\ syncResult.totalEmails = 230) =>
    /\ session.status = "completed"
    /\ session.totalBatches = 3
    /\ session.currentBatch = 3
    /\ session.totalEmails = 230
    /\ Cardinality(emails) = 230
    /\ {r.gmailId : r \in emails} = remote["A"]

\* the run over 230 messages returned with every message fetched
C16_Witness ==
  /\ pc = "done" /\ options = "7d"
  /\ Cardinality(remote["A"]) = 230
  /\ syncResult.success /\ syncResult.totalEmails = 230
  /\ session.totalBatches = 3

\* C17: the hybrid run (100 emails, 40 classified locally, 60 by AI, 12 of
\* them low-confidence) makes exactly one enhanced-pass call, covering the 12
\* low-confidence emails, and its report has totalEmails = 100.
C17_HybridScenario ==
  hybPc = "done" =>
    /\ Len(hybEnhancedCalls) = 1
    /\ hybEnhancedCalls[1] = hybLowIds
    /\ hybReport.totalEmails = 100

\* the sender e-mail address contains "marketing" in any letter case
MarketingSender(email) ==
  \E k \in 1..Len(email.senderEmail) : email.senderEmail[k].word = "marketing"

\* C18: when the sender e-mail contains "marketing", classifyEmail returns
\* newsletter or promotional, never unknown or social, whatever the subject
\* and the from field contain.
C18_MarketingSender ==
  (MarketingSender(clfEmail) /\ clfCategory # "pending")
    => clfCategory \in {"newsletter", "promotional"}

\* a marketing sender whose from field names a social network and whose
\* subject is neutral has been classified
C18_Witness ==
  /\ MarketingSender(clfEmail)
  /\ clfEmail.senderEmail[1].upper
  /\ includes(toLowerCase(clfEmail.from), "linkedin")
  /\ clfEmail.subject = <<>>
  /\ clfCategory = "newsletter"

\* the candidates the call removed from a report
CRRemoved(reportId) == CandidatesOf(crBefore.candidates, reportId) \ crCandidates

\* C19: after cleanupReportsAfterDeletion(user, ids) completes, every report
\* of that user from which at least one candidate was removed and which has
\* no candidate left is deleted together with its sender rows, and a report
\* that still has candidates is kept.
C19_EmptyReportsRemoved ==
  crPc = "done" =>
    \A reportRow \in crBefore.reports :
      /\ ( /\ reportRow.userEmail = crArgs.userEmail
           /\ CRRemoved(reportRow.id) # {}
           /\ CandidatesOf(crCandidates, reportRow.id) = {} )
         => /\ \A r \in crReports : r.id # reportRow.id
            /\ \A s \in crSenders : s.reportId # reportRow.id
      /\ CandidatesOf(crCandidates, reportRow.id) # {}
         => \E r \in crReports : r.id = reportRow.id

\* one call emptied a report that had sender rows and left candidates in
\* another report of the same user
C19_Witness ==
  /\ crPc = "done"
  /\ crResult.deletedReports = 1
  /\ crResult.updatedReports = 1
  /\ \E reportRow \in crBefore.reports :
       /\ \A r \in crReports : r.id # reportRow.id
       /\ \E s \in crBefore.senders : s.reportId = reportRow.id

\* C20: when the local email cleanup or the report cleanup throws after the
\* remote deletion, the delete-emails request still answers success with the
\* per-ID results the remote deletion produced.
C20_BookkeepingNonFatal ==
  (delPc = "done" /\ delCleanupError # "none")
    => /\ delResponse.status = 200
       /\ delResponse.success
       /\ delResponse.results = [successful |-> Len(delDeleted.successful),
                                 failed |-> Len(delDeleted.failed),
                                 details |-> delDeleted]

\* a request with one deleted and one failed ID has been answered after the
\* report cleanup threw
C20_Witness ==
  /\ delPc = "done"
  /\ delCleanupError = "reports"
  /\ Len(delDeleted.successful) = 1
  /\ Len(delDeleted.failed) = 1
  /\ delResponse.status = 200

\* a call made at time `now` against the history `reqs` is within both limits
Admissible(reqs, now) ==
  /\ ~AtLimit(FilterWindow(reqs, now))
  /\ DelayNeeded(FilterWindow(reqs, now), now) = 0

\* C21: a caller that waitIfNeeded() suspended looks at the recorded history
\* again when it wakes, and records its call only if the call is admissible
\* at that moment.
C21_RecheckOnWake ==
  [][\A c \in Callers :
       (callers[c].pc # "idle" /\ callers'[c].pc = "idle" /\ Len(recorded') > Len(recorded))
         => Admissible(requests, clock)]_vars

\* C22: when a page request of the listing fails, the run fails without
\* fetching a message detail and without persisting or deleting a local row.
C22_ListingFailsFast ==
  listFailure.page > 0 =>
    /\ pc \in {"catch", "catchStatus", "threw"}
    /\ emails = listFailure.rows
    /\ messageIds = <<>>
    /\ batchEmails = {}
    /\ totalProcessed = 0
    /\ ~deletedResult.ran
    /\ syncResult = NoResult

\* the second page of a listing failed, with rows stored, and the run has thrown
C22_Witness ==
  /\ listFailure.page = 2
  /\ listFailure.rows # {}
  /\ pc = "threw"

\* C23: batches are strictly sequential: no detail fetch of a batch is
\* issued before the upsert transaction of the batch before it has completed.
C23_BatchesSequential ==
  \A i \in batchLog.fetched, j \in batchLog.fetched :
    j < i => j \in batchLog.persisted

\* the second batch is being fetched after the first one was persisted
C23_Witness ==
  /\ pc = "persist"
  /\ batchStart > 0
  /\ batchLog.fetched = {0, batchStart}
  /\ batchLog.persisted = {0}

\* C24: a message whose detail fetch fails with 429 is fetched once more;
\* a message whose fetch fails otherwise, or whose retry fails, is left out
\* of the batch result; no message is fetched more than twice and these
\* failures never fail the batch.
C24_SingleRetry ==
  /\ pbPc # "threw"
  /\ \A id \in DOMAIN pbMsg :
       /\ pbMsg[id].calls <= 2
       /\ pbMsg[id].state = "fulfilled"
            => pbMsg[id].calls = (IF pbMsg[id].first = "429" THEN 2 ELSE 1)
       /\ pbMsg[id].retry # "none" => pbMsg[id].first = "429"
  /\ pbPc = "returned" =>
       \A id \in DOMAIN pbMsg :
         id \in Range(pbResults)
           <=> (pbMsg[id].first = "ok" \/ (pbMsg[id].first = "429" /\ pbMsg[id].retry = "ok"))

\* a batch returned with one message retried successfully, one dropped after
\* its retry hit 429 again, one dropped on another error
C24_Witness ==
  /\ pbPc = "returned"
  /\ \E a, b, c \in DOMAIN pbMsg :
       /\ pbMsg[a].first = "429" /\ pbMsg[a].retry = "ok" /\ a \in Range(pbResults)
       /\ pbMsg[b].first = "429" /\ pbMsg[b].retry = "429" /\ b \notin Range(pbResults)
       /\ pbMsg[c].first = "other" /\ pbMsg[c].calls = 1 /\ c \notin Range(pbResults)

\* the JSON array a response text holds, when it is one of objects only
ObjectArray(text) ==
  LET stripped == StripFences(text)
  IN IF /\ Len(stripped) = 1 /\ stripped[1].tok = "json"
        /\ stripped[1].value[1].json = "array"
        /\ \A k \in 1..Len(stripped[1].value[1].items) :
             stripped[1].value[1].items[k].kind = "object"
     THEN <<stripped[1].value[1].items>>
     ELSE <<>>

\* the result of position i when entries are matched by id: the entry whose
\* id is i, else the entry at index i-1 if it has no id field, else the default
MatchedById(items, i) ==
  IF \E k \in 1..Len(items) : items[k].id = i
  THEN CleanResult(items[CHOOSE k \in 1..Len(items) :
                           items[k].id = i /\ \A j \in 1..(k - 1) : items[j].id # i])
  ELSE IF i <= Len(items) /\ items[i].id = 0 THEN CleanResult(items[i])
  ELSE DefaultEntry

\* C25: the result of each input position i is the response entry whose id
\* is i; the entry at array index i-1 is used only when it has no id field,
\* and the default result when there is neither: an entry carrying id k is
\* never attributed to another position.
C25_MatchedById ==
  (clsPc = "returned" /\ clsParsed.called /\ ObjectArray(clsSend.text) # <<>>) =>
    \A i \in 1..Len(clsEmails) :
      clsParsed.result.value[1][i] = MatchedById(ObjectArray(clsSend.text)[1], i)

\* the calls of the enhanced pass made for the batch
EnhancedCalls == SelectSeq(progCalls, LAMBDA call : call.pass = "enhanced")

\* the emails whose initial result has confidence low, in batch order
LowEmails ==
  LET idx == SelectSeq([k \in 1..Len(initialResults) |-> k],
                       LAMBDA k : initialResults[k].confidence = "low")
  IN [j \in 1..Len(idx) |-> progEmails[idx[j]]]

\* C26: for one batch in auto mode the enhanced pass is invoked if and only
\* if the initial pass gave a low-confidence result, on exactly the
\* low-confidence emails in their original order, and at most once; in fast
\* or full mode it is never invoked.
C26_EscalationDiscipline ==
  /\ Len(EnhancedCalls) <= 1
  /\ progMode # "auto" => Len(EnhancedCalls) = 0
  /\ (progMode = "auto" /\ progPc = "done") =>
       /\ Len(EnhancedCalls) = 1 <=> Len(LowEmails) > 0
       /\ Len(EnhancedCalls) = 1 => EnhancedCalls[1].emails = LowEmails
  /\ \A k \in 1..Len(progCalls) : progCalls[k].pass = "enhanced" => k = 2

\* auto mode escalated the first and the last of three emails, and the
\* enhanced result of one of them is still low
C26_Witness ==
  /\ progMode = "auto" /\ progPc = "done"
  /\ Len(progEmails) = 3
  /\ Len(EnhancedCalls) = 1
  /\ EnhancedCalls[1].emails = <<1, 3>>
  /\ finalResults[1].confidence = "low"

\* C27: requestCount is incremented exactly once for each batch-level
\* classifier call, whatever the number of messages of the batch, so that at
\* the end of the run it equals the number of AI batches processed.
C27_RequestCount ==
  /\ requestCount <= aggProcessed
  /\ aggPc = "done" => requestCount = aggProcessed

\* lines 780-781: hasSyncedData = syncStatus && syncStatus.totalEmails > 0
HasSyncedData(user) == syncStatus[user].totalEmails > 0

\* lines 783-789: the path runFullAnalysis takes for a cleanup analysis
Regime(user) == IF HasSyncedData(user) THEN "hybrid" ELSE "traditional"

\* the locally persisted messages of a user
LocalRows(user) == {row \in emails : row.userEmail = user}

\* C28: after any sequence of sync runs a cleanup analysis takes the hybrid
\* path exactly when the user has at least one locally persisted message, and
\* the traditional path exactly when the user has none.
C28_RegimeFollowsLocalData ==
  (pc = "done" \/ pc = "threw") =>
    (Regime(userEmail) = "hybrid" <=> LocalRows(userEmail) # {})

\* the sender address matches a noreply pattern
IsNoreply(senderEmail) == includes(toLowerCase(senderEmail), "noreply")

\* C29: in the hybrid path a stored message whose sender e-mail matches a
\* noreply pattern is never pre-classified by canClassifyWithoutAI, whatever
\* else its subject and sender contain: it is always placed in the AI queue.
C29_NoreplyToAI ==
  (IsNoreply(pfEmail.senderEmail) /\ pfQueue # "pending") =>
    (~canClassifyWithoutAI(pfEmail) /\ pfQueue = "needsAI")

\* C30: for every (subject, from, senderEmail) input whose sender is a
\* noreply-style address the local classifier returns unknown.
C30_NoreplyUnknown ==
  (IsNoreply(clfEmail.senderEmail) /\ clfCategory # "pending") =>
    clfCategory = "unknown"

\* C31: the category assigned at sync time (classifyEmail) and the category
\* assigned by the analysis-side local classifier (classifyEmailCategory) are
\* equal for every (subject, from, senderEmail) input.
C31_OneClassifier ==
  (clfCategory # "pending" /\ anaCategory # "pending") => clfCategory = anaCategory

\* the analyses pushed for an email of the batch
AnalysesFor(emailId) == {k \in 1..Len(aiAnalyses) : aiAnalyses[k].emailId = emailId}

\* C32: each message selected for a cleanup analysis contributes at most one
\* analysis result to the report, also when processing of a batch's results
\* throws part-way and the per-message fallback for that batch runs.
C32_NoDuplicateResults ==
  \A emailId \in 1..Len(brResults) : Cardinality(AnalysesFor(emailId)) <= 1

\* C33: every message accepted by canClassifyWithoutAI receives from
\* getLocalAnalysis a category in {newsletter, promotional} with
\* recommendation delete: the unknown/keep default branch of getLocalAnalysis
\* is unreachable for accepted messages.
C33_LocalAnalysisAgrees ==
  pfQueue = "preClassified" =>
    /\ pfAnalysis.category \in {"newsletter", "promotional"}
    /\ pfAnalysis.cleanupRecommendation = "delete"

\* the counters of every stored report equal the numbers of its candidate rows
CountersMatch ==
  \A r \in crReports :
    /\ r.deletionCandidates = CountType(crCandidates, r.id, "delete")
    /\ r.keepCandidates = CountType(crCandidates, r.id, "keep")
    /\ r.deletionCandidates >= 0
    /\ r.keepCandidates >= 0

\* C34: after any sequence of move-email requests and
\* cleanupReportsAfterDeletion calls, every surviving report's
\* deletionCandidates counter equals the number of its candidate rows with
\* recommendationType delete, its keepCandidates counter equals the number
\* with recommendationType keep, and both are non-negative.
C34_CountersTrackCandidates ==
  (~mvOverlap /\ \A q \in DOMAIN mvReqs : ~InFlight(q)) => CountersMatch

\* C35: when two move-email requests on the same report interleave in any
\* order of their update, count and report-update steps, then after both have
\* finished the report's deletionCandidates and keepCandidates equal the
\* actual numbers of delete-type and keep-type candidate rows.
C35_ConcurrentMoves ==
  ( /\ mvCleanups = 0
    /\ mvReqs # <<>>
    /\ \A q \in DOMAIN mvReqs : mvReqs[q].pc = "done" ) => CountersMatch

\* the IDs recorded as failed
FailedIds == {delResults.failed[k].emailId : k \in 1..Len(delResults.failed)}

\* the batch loop of the request has ended
BatchesDone ==
  \/ delPc = "emailCleanup"
  \/ delPc = "reportCleanup"
  \/ delPc = "respond"
  \/ delPc = "done" /\ delResponse.status = 200

\* C36: for every delete-emails request with distinct IDs and every
\* combination of batch, auth, refresh, retry and per-message outcomes, each
\* requested ID ends in exactly one of results.successful and results.failed,
\* so successful + failed equals the number of requested IDs; and only IDs in
\* results.successful are removed from the local store and reports.
C36_ResultsPartition ==
  /\ [](BatchesDone =>
          /\ Range(delResults.successful) \cup FailedIds = Range(delEmailIds)
          /\ Range(delResults.successful) \cap FailedIds = {}
          /\ Len(delResults.successful) + Len(delResults.failed) = Len(delEmailIds)
          /\ delCleanedIds \subseteq Range(delResults.successful))
  /\ [][(delLocal \ delLocal') \subseteq Range(delResults.successful)]_vars

\* a request for two IDs has been answered: one was deleted, its local row and
\* its report candidates are gone; the other failed in the individual
\* fallback and kept its local row
C36_Witness ==
  /\ delPc = "done"
  /\ delResponse.status = 200
  /\ Len(delEmailIds) = 2
  /\ Len(delResults.successful) = 1
  /\ Len(delResults.failed) = 1
  /\ delResults.failed[1].error = IndividualError
  /\ delResults.failed[1].emailId \in delLocal
  /\ delResults.successful[1] \notin delLocal
  /\ delCleanedIds = Range(delResults.successful)

\* C37: for every interleaving of sync runs (including two runs for the same
\* user), manual reset requests and status polls, whenever the user's
\* SyncStatus has syncInProgress = false, none of that user's SyncSessions has
\* status in_progress.
C37_FlagAgreesWithSessions ==
  ~ssInProgress => \A r \in DOMAIN ssSessions : ssSessions[r] # "in_progress"

\* C38: at the end of every analysis run the accumulated usage satisfies
\* totalTokens = inputTokens + outputTokens, for every batch size and every
\* per-batch input/output token count reported by the LLM.
C38_TotalsConsistent ==
  totalTokenUsage.totalTokens = totalTokenUsage.inputTokens + totalTokenUsage.outputTokens

\* C39: after the jwt callback has refreshed an access token, a later jwt
\* callback invoked after the refreshed token's real expiry time again treats
\* the token as expired and refreshes it: the stored expiry is compared in the
\* time unit in which it was written.
C39_RefreshedTokensExpire ==
  [][(jwtCalls' = jwtCalls + 1 /\ jwtRefreshes >= 1 /\ jwtNow >= jwtRealExpiry)
       => jwtLast' # "kept"]_vars

====
